---------------------------- MODULE Spec2Model ----------------------------
(***************************************************************************)
(* commandORM: the SQL table handle (TableQueryBuilder) and the Model that *)
(* owns the connection pool.  SQL text is modelled as text: a clause slot  *)
(* is a string, "" when empty, and a statement is the string sent to       *)
(* client.query.                                                           *)
(***************************************************************************)
EXTENDS Naturals, Sequences, FiniteSets, TLC

(***************************************************************************)
(* Bounds of the model.                                                    *)
(***************************************************************************)
\* chained (non-terminal) calls made on the handle since its slots were last cleared,
\* beside every terminal call (Spec) and beside get() and delete() alone (SpecChain)
MaxChain == 1
MaxChainOnly == 3
\* rows in an array passed to insert / upsert
MaxRows == 1

\* chained calls before a terminal call where rows are inserted or a transaction is open
MaxChainFew == 1

\* ALTER TABLE statements applied to the catalog in one run
MaxAlter == 1

\* chained calls made on one CSVQueryBuilder, before the calls that read the file
\* (SpecCsvRead) and before those that write it (SpecCsv), and rows in the file
MaxCsvChain == 3
MaxCsvChainFew == 2
MaxFileRows == 2

\* calls made on the table's file before the caller looks at the file again
MaxCalls == 2

(***************************************************************************)
(* JavaScript values.  t is the typeof / kind of the value, v its text     *)
(* (String(value)), items the elements of an array.                        *)
(***************************************************************************)
JUndef == [t |-> "undefined", v |-> "undefined", items |-> <<>>]
JNull == [t |-> "null", v |-> "null", items |-> <<>>]
JStr(s) == [t |-> "string", v |-> s, items |-> <<>>]
JNum(s) == [t |-> "number", v |-> s, items |-> <<>>]
JBool(s) == [t |-> "boolean", v |-> s, items |-> <<>>]
JArr(xs) == [t |-> "array", v |-> "", items |-> xs]

\* JavaScript truthiness: undefined, null, false, 0 and "" are falsy
Truthy(x) ==
    /\ x.t \notin {"undefined", "null"}
    /\ ~(x.t = "boolean" /\ x.v = "false")
    /\ ~(x.t = "number" /\ x.v = "0")
    /\ ~(x.t = "string" /\ x.v = "")

\* args[i] of a JavaScript rest-parameter array (0-based; undefined past the end)
Arg(args, i) == IF i + 1 <= Len(args) THEN args[i + 1] ELSE JUndef

(***************************************************************************)
(* Text helpers.                                                           *)
(***************************************************************************)
Lower == {"a", "b", "c", "d", "e", "f", "g", "h", "i", "j", "k", "l", "m",
          "n", "o", "p", "q", "r", "s", "t", "u", "v", "w", "x", "y", "z"}
Upper == {"A", "B", "C", "D", "E", "F", "G", "H", "I", "J", "K", "L", "M",
          "N", "O", "P", "Q", "R", "S", "T", "U", "V", "W", "X", "Y", "Z"}
Digit == {"0", "1", "2", "3", "4", "5", "6", "7", "8", "9"}

CharAt(s, i) == SubSeq(s, i, i)

\* every character of s from position i on is in the class cs
RECURSIVE AllIn(_, _, _)
AllIn(s, i, cs) == IF i > Len(s) THEN TRUE
                   ELSE CharAt(s, i) \in cs /\ AllIn(s, i + 1, cs)

\* String.prototype.trim
RECURSIVE TrimLeft(_)
TrimLeft(s) == IF Len(s) > 0 /\ CharAt(s, 1) = " " THEN TrimLeft(SubSeq(s, 2, Len(s))) ELSE s
RECURSIVE TrimRight(_)
TrimRight(s) == IF Len(s) > 0 /\ CharAt(s, Len(s)) = " "
                THEN TrimRight(SubSeq(s, 1, Len(s) - 1)) ELSE s
Trim(s) == TrimRight(TrimLeft(s))

\* String.prototype.slice(n): the text after the first n characters
Slice(s, n) == SubSeq(s, n + 1, Len(s))

\* Array.prototype.join / Array.prototype.toString on an array of strings
RECURSIVE JoinStr(_, _)
JoinStr(xs, sep) == IF Len(xs) = 0 THEN ""
                    ELSE IF Len(xs) = 1 THEN xs[1]
                    ELSE xs[1] \o sep \o JoinStr(Tail(xs), sep)

\* Array.prototype.filter, keeping the elements outside / for which key is outside `drop`
RECURSIVE Without(_, _)
Without(xs, drop) == IF Len(xs) = 0 THEN <<>>
                     ELSE IF xs[1] \in drop THEN Without(Tail(xs), drop)
                     ELSE <<xs[1]>> \o Without(Tail(xs), drop)

Range(xs) == {xs[i] : i \in 1..Len(xs)}

\* validateSQLName: /^[a-zA-Z_][a-zA-Z0-9_]*$/.test(arg)
ValidSQLName(s) ==
    /\ Len(s) > 0
    /\ CharAt(s, 1) \in Lower \cup Upper \cup {"_"}
    /\ AllIn(s, 2, Lower \cup Upper \cup Digit \cup {"_"})

(***************************************************************************)
(* pg-format: %I (identifier), %L (literal), %s (string).                  *)
(***************************************************************************)
\* words pg-format always quotes; the ones that can meet the names used here
Reserved == {"and", "or", "user", "table", "select", "where", "order", "limit"}

\* %I of one name: kept as written when /^[a-z_][a-z0-9_$]*$/ and not reserved, else "quoted"
Ident(s) ==
    IF /\ Len(s) > 0
       /\ CharAt(s, 1) \in Lower \cup {"_"}
       /\ AllIn(s, 2, Lower \cup Digit \cup {"_", "$"})
       /\ s \notin Reserved
    THEN s
    ELSE "\"" \o s \o "\""

\* %I of an array of names: each formatted, joined by ","
IdentList(xs) == JoinStr([i \in 1..Len(xs) |-> Ident(xs[i])], ",")

\* %L of one scalar value
LiteralScalar(x) ==
    IF x.t \in {"undefined", "null"} THEN "NULL"
    ELSE IF x.t = "boolean" THEN (IF x.v = "true" THEN "'t'" ELSE "'f'")
    ELSE "'" \o x.v \o "'"

\* %L of an array of values: each formatted, joined by ","
LiteralList(xs) == JoinStr([i \in 1..Len(xs) |-> LiteralScalar(xs[i])], ",")

\* %L of any value
Literal(x) == IF x.t = "array" THEN LiteralList(x.items) ELSE LiteralScalar(x)

\* %s of an array of strings: joined by ","
StrList(xs) == JoinStr(xs, ",")

\* "table.column".split("."): the parts around the dots
RECURSIVE SplitDot(_)
SplitDot(s) ==
    LET dots == {i \in 1..Len(s) : CharAt(s, i) = "."} IN
    IF dots = {} THEN <<s>>
    ELSE LET d == CHOOSE i \in dots : \A j \in dots : i <= j
         IN <<SubSeq(s, 1, d - 1)>> \o SplitDot(SubSeq(s, d + 1, Len(s)))

(***************************************************************************)
(* The table handle: TableQueryBuilder, one clause slot per SQL clause.    *)
(***************************************************************************)
\* the keys of this.sql, in the order the constructor creates them
SlotNames == <<"delete", "select", "join", "on", "where", "order", "desc", "limit", "returning">>

\* this.sql as the constructor leaves it, and as #__execute's loop leaves it
EmptySql == [k \in Range(SlotNames) |-> ""]

\* the handle as the constructor leaves it
NewHandle == [sql |-> EmptySql, selectCols |-> <<>>, orderCols |-> <<>>]

\* The name of the table the handle was made for
TableName == "tests"

\* the comparison operators where() and on() accept
operators == {"=", "!=", "<>", ">=", "<=", "<", ">"}

\* What a chained method leaves behind: err is "" when it returned `this`, else the
\* kind of the error it threw; b is the builder's fields after the call.
Returned(b) == [err |-> "", b |-> b]
Threw(kind, b) == [err |-> kind, b |-> b]

\* select(...columns)
select(b, columns) ==
    LET cols == IF Len(columns) > 0 THEN Without(columns, {"*"}) ELSE <<"*">> IN
    Returned([b EXCEPT !.selectCols = cols,
                       !.sql.select = "SELECT " \o StrList(cols) \o " FROM " \o Ident(TableName)])

\* on(...args): builds the ON clause from one of five argument shapes
on(b, args) ==
    LET a0 == Arg(args, 0)
        a1 == Arg(args, 1)
        a2 == Arg(args, 2)
        \* args[i]?.trim()?.split(".") ?? []
        parts(a) == IF a.t \in {"undefined", "null"} THEN <<>> ELSE SplitDot(Trim(a.v))
        left == parts(a0)
        right == parts(a2)
        right1 == SplitDot(Trim(a1.v))
        \* format %I throws on an undefined identifier
        has2(p) == Len(p) >= 2
    IN
    IF a0.t \notin {"undefined", "null", "string"} \/ a2.t \notin {"undefined", "null", "string"}
    THEN Threw("TypeError", b)
    ELSE IF a1.t = "string" /\ a1.v \in operators /\ Len(args) = 3
    THEN IF has2(left) /\ has2(right)
         THEN Returned([b EXCEPT !.sql.on = "ON " \o Ident(left[1]) \o "." \o Ident(left[2])
                                     \o " " \o a1.v \o " "
                                     \o Ident(right[1]) \o "." \o Ident(right[2])])
         ELSE Threw("FormatError", b)
    ELSE IF a1.t = "array" /\ Len(args) = 2
    THEN IF has2(left)
         THEN Returned([b EXCEPT !.sql.on = "ON " \o Ident(left[1]) \o "." \o Ident(left[2])
                                     \o " IN (" \o LiteralList(a1.items) \o ")"])
         ELSE Threw("FormatError", b)
    ELSE IF a0.t = "string" /\ a1.t = "string" /\ Len(args) = 2
    THEN IF has2(left) /\ has2(right1)
         THEN Returned([b EXCEPT !.sql.on = "ON " \o Ident(left[1]) \o "." \o Ident(left[2])
                                     \o " = "
                                     \o Ident(right1[1]) \o "." \o Ident(right1[2])])
         ELSE Threw("FormatError", b)
    ELSE IF a0.t = "string" /\ a1.t = "number" /\ Len(args) = 2
    THEN IF has2(left)
         THEN Returned([b EXCEPT !.sql.on = "ON " \o Ident(left[1]) \o "." \o Ident(left[2])
                                     \o " = " \o a1.v])
         ELSE Threw("FormatError", b)
    ELSE IF a0.t = "string" /\ a1.t = "null" /\ Len(args) = 2
    THEN IF has2(left)
         THEN Returned([b EXCEPT !.sql.on = "ON " \o Ident(left[1]) \o "." \o Ident(left[2])
                                     \o " IS NULL"])
         ELSE Threw("FormatError", b)
    ELSE Threw("JoinClauseNeedsColumns", b)

\* onOr without its guard on the ON slot
onOrUnguarded(b, args) ==
    LET onToAdd == b.sql.on \o " OR "
        r == on(b, args)
    IN IF r.err # "" THEN r
       ELSE Returned([r.b EXCEPT !.sql.on = onToAdd \o Slice(r.b.sql.on, 3)])

\* onOr(...args)
onOr(b, args) ==
    IF b.sql.on = "" THEN Threw("onOrBeforeOn", b)
    ELSE LET onToAdd == b.sql.on \o " OR "
             r == on(b, args)
         IN IF r.err # "" THEN r
            ELSE Returned([r.b EXCEPT !.sql.on = onToAdd \o Slice(r.b.sql.on, 3)])

\* onAnd(...args)
onAnd(b, args) ==
    IF b.sql.on = "" THEN Threw("onAndBeforeOn", b)
    ELSE LET onToAdd == b.sql.on \o " AND "
             r == on(b, args)
         IN IF r.err # "" THEN r
            ELSE Returned([r.b EXCEPT !.sql.on = onToAdd \o Slice(r.b.sql.on, 3)])

\* a where() that would empty the WHERE slot before it throws on the arguments
whereClearingFirst(b, args) ==
    LET a0 == Arg(args, 0)
        a1 == Arg(args, 1)
        cleared == [b EXCEPT !.sql.where = ""]
    IN
    IF a1.t = "string" /\ a1.v \in operators /\ Len(args) = 3
    THEN IF a0.t # "string" THEN Threw("TypeError", cleared)
         ELSE Returned([b EXCEPT !.sql.where = "WHERE " \o Ident(Trim(a0.v)) \o " " \o a1.v
                                     \o " " \o Literal(Arg(args, 2))])
    ELSE IF a1.t = "array" /\ Len(args) = 2
    THEN IF a0.t # "string" THEN Threw("TypeError", cleared)
         ELSE Returned([b EXCEPT !.sql.where = "WHERE " \o Ident(Trim(a0.v))
                                     \o " IN (" \o LiteralList(a1.items) \o ")"])
    ELSE IF a0.t = "string" /\ a1.t \in {"string", "number"} /\ Len(args) = 2
    THEN Returned([b EXCEPT !.sql.where = "WHERE " \o Ident(Trim(a0.v)) \o " = " \o Literal(a1)])
    ELSE IF a0.t = "string" /\ a1.t = "null" /\ Len(args) = 2
    THEN Returned([b EXCEPT !.sql.where = "WHERE " \o Ident(a0.v) \o " IS NULL"])
    ELSE Threw("InvalidWhereArguments", cleared)

\* where(...args): builds the WHERE clause from one of four argument shapes
where(b, args) ==
    LET a0 == Arg(args, 0)
        a1 == Arg(args, 1)
        a2 == Arg(args, 2)
    IN
    IF a1.t = "string" /\ a1.v \in operators /\ Len(args) = 3
    THEN IF a0.t # "string" THEN Threw("TypeError", b)
         ELSE Returned([b EXCEPT !.sql.where = "WHERE " \o Ident(Trim(a0.v)) \o " " \o a1.v
                                     \o " " \o Literal(a2)])
    ELSE IF a1.t = "array" /\ Len(args) = 2
    THEN IF a0.t # "string" THEN Threw("TypeError", b)
         ELSE Returned([b EXCEPT !.sql.where = "WHERE " \o Ident(Trim(a0.v))
                                     \o " IN (" \o LiteralList(a1.items) \o ")"])
    ELSE IF a0.t = "string" /\ a1.t \in {"string", "number"} /\ Len(args) = 2
    THEN Returned([b EXCEPT !.sql.where = "WHERE " \o Ident(Trim(a0.v)) \o " = " \o Literal(a1)])
    ELSE IF a0.t = "string" /\ a1.t = "null" /\ Len(args) = 2
    THEN Returned([b EXCEPT !.sql.where = "WHERE " \o Ident(a0.v) \o " IS NULL"])
    ELSE Threw("InvalidWhereArguments", b)

\* an or() that would put its predicate in front of the clause
orPrepending(b, args) ==
    IF b.sql.where = "" THEN Threw("orBeforeWhere", b)
    ELSE LET r == where(b, args)
         IN IF r.err # "" THEN r
            ELSE Returned([r.b EXCEPT !.sql.where = r.b.sql.where \o " OR "
                                                       \o Slice(b.sql.where, 6)])

\* or(...args)
or(b, args) ==
    IF b.sql.where = "" THEN Threw("orBeforeWhere", b)
    ELSE LET whereToAdd == b.sql.where \o " OR "
             r == where(b, args)
         IN IF r.err # "" THEN r
            ELSE Returned([r.b EXCEPT !.sql.where = whereToAdd \o Slice(r.b.sql.where, 6)])

\* and without its guard on the WHERE slot
andUnguarded(b, args) ==
    LET whereToAdd == b.sql.where \o " AND "
        r == where(b, args)
    IN IF r.err # "" THEN r
       ELSE Returned([r.b EXCEPT !.sql.where = whereToAdd \o Slice(r.b.sql.where, 6)])

\* and(...args)
and(b, args) ==
    IF b.sql.where = "" THEN Threw("andBeforeWhere", b)
    ELSE LET whereToAdd == b.sql.where \o " AND "
             r == where(b, args)
         IN IF r.err # "" THEN r
            ELSE Returned([r.b EXCEPT !.sql.where = whereToAdd \o Slice(r.b.sql.where, 6)])

\* returning(...columns)
returning(b, columns) ==
    Returned([b EXCEPT !.sql.returning =
        "RETURNING " \o (IF Len(columns) > 0 THEN StrList(Without(columns, {"*"})) ELSE "*")])

\* orderBy(...columns)
orderBy(b, columns) ==
    LET cols == IF Len(columns) > 0 THEN Without(columns, {"*"}) ELSE <<>> IN
    Returned([b EXCEPT !.orderCols = cols,
                       !.sql.order = IF Len(cols) > 0 THEN "ORDER BY " \o StrList(cols) ELSE ""])

\* desc()
desc(b) == Returned([b EXCEPT !.sql.desc = "DESC"])

\* limit(number); number is given by its decimal text
limit(b, number) == Returned([b EXCEPT !.sql.limit = "LIMIT " \o number])

\* The calls a join callback makes on its context {sql, on, onOr, onAnd}, in order.  The
\* context's sql is the handle's own sql object, so each call acts on the handle's slots;
\* the first call that throws ends the callback.
RECURSIVE applyCallback(_, _)
applyCallback(b, calls) ==
    IF Len(calls) = 0 THEN Returned(b)
    ELSE LET c == calls[1]
             r == IF c.m = "on" THEN on(b, c.args)
                  ELSE IF c.m = "onOr" THEN onOr(b, c.args)
                  ELSE onAnd(b, c.args)
         IN IF r.err # "" THEN r ELSE applyCallback(r.b, Tail(calls))

\* #__join(...args); j.fn says that the one argument is a callback making the calls j.calls,
\* otherwise j.args are the arguments forwarded to on()
join(b, j) ==
    IF b.sql.join = "" THEN Threw("JoinQueryEmpty", b)
    ELSE IF j.fn THEN applyCallback(b, j.calls)
    ELSE IF Len(j.args) > 0 THEN on(b, j.args)
    ELSE Returned(b)

\* innerJoin(table, ...args)
innerJoin(b, table, j) == join([b EXCEPT !.sql.join = "INNER JOIN " \o Ident(table)], j)

\* leftJoin(table, ...args)
leftJoin(b, table, j) == join([b EXCEPT !.sql.join = "LEFT JOIN " \o Ident(table)], j)

\* rightJoin(table, ...args)
rightJoin(b, table, j) == join([b EXCEPT !.sql.join = "RIGHT JOIN " \o Ident(table)], j)

(***************************************************************************)
(* The catalog of the server: what getSchemaData and getPrimaryKeys read.  *)
(***************************************************************************)
idFieldMock == [column_name |-> "id", column_default |-> JStr("nextval"),
                is_nullable |-> "NO", data_type |-> "integer"]
nameFieldMock == [column_name |-> "name", column_default |-> JNull,
                  is_nullable |-> "NO", data_type |-> "character varying"]
jobFieldMock == [column_name |-> "job", column_default |-> JStr("chemist"),
                 is_nullable |-> "YES", data_type |-> "character varying"]
gpaFieldMock == [column_name |-> "gpa", column_default |-> JNull,
                 is_nullable |-> "YES", data_type |-> "decimal"]
dateFieldMock == [column_name |-> "date_of_birth", column_default |-> JNull,
                  is_nullable |-> "NO", data_type |-> "date"]
\* a primary key that is not a serial: NOT NULL and no default
idPlainField == [column_name |-> "id", column_default |-> JNull,
                 is_nullable |-> "NO", data_type |-> "integer"]
idPrimaryKey == [column_name |-> "id", data_type |-> "integer"]

\* The tables a handle may be pointed at: without primary key, with a serial primary key,
\* with a primary key that has no default
Catalogs ==
    { [schema |-> <<nameFieldMock, jobFieldMock>>, pks |-> <<>>],
      [schema |-> <<idFieldMock, nameFieldMock, jobFieldMock>>, pks |-> <<idPrimaryKey>>],
      [schema |-> <<idPlainField, nameFieldMock, jobFieldMock>>, pks |-> <<idPrimaryKey>>] }

columnNames(schemaData) == [i \in 1..Len(schemaData) |-> schemaData[i].column_name]

\* schemaData.filter((col) => !names.includes(col.column_name))
RECURSIVE withoutColumns(_, _)
withoutColumns(schemaData, names) ==
    IF Len(schemaData) = 0 THEN <<>>
    ELSE IF schemaData[1].column_name \in names THEN withoutColumns(Tail(schemaData), names)
    ELSE <<schemaData[1]>> \o withoutColumns(Tail(schemaData), names)

(***************************************************************************)
(* Row objects: a function from the keys the object has to their values.   *)
(* values is what insert / upsert receive: one row object (isArray FALSE,  *)
(* rows = <<that row>>) or an array of row objects.                        *)
(***************************************************************************)
\* object[key]: undefined when the object has no such key
Prop(row, k) == IF k \in DOMAIN row THEN row[k] ELSE JUndef

\* values[key] as #__insert and upsert read it: an array has no such property
valuesProp(values, k) == IF values.isArray THEN JUndef ELSE Prop(values.rows[1], k)

(***************************************************************************)
(* Terminal calls.  A step of a call ends in one of three ways: the call   *)
(* awaits a catalog or statement query (through Model.decorator), rejects, *)
(* or resolves.                                                            *)
(***************************************************************************)
Await(phase, b, stmt) == [to |-> "await", phase |-> phase, b |-> b, stmt |-> stmt, err |-> ""]
Reject(kind, b) == [to |-> "reject", phase |-> "", b |-> b, stmt |-> "", err |-> kind]
Resolve(b) == [to |-> "resolve", phase |-> "", b |-> b, stmt |-> "", err |-> ""]

\* #__execute(sql): every slot of this.sql is cleared, then the statement is sent
execute(b, stmt) == Await("exec", [b EXCEPT !.sql = EmptySql], stmt)

\* Object.values(this.sql).filter((value) => value).join(" ").trim() + ";"
RECURSIVE nonEmptySlots(_, _)
nonEmptySlots(sqlSlots, names) ==
    IF Len(names) = 0 THEN <<>>
    ELSE IF sqlSlots[names[1]] # "" THEN <<sqlSlots[names[1]]>> \o nonEmptySlots(sqlSlots, Tail(names))
    ELSE nonEmptySlots(sqlSlots, Tail(names))

\* get() without its check of the select slot
getUnchecked(b) == Await("schema", b, "")

\* get(), up to its first await
get(b) ==
    IF b.sql.select = "" THEN Reject("ColumnsNotSelected", b)
    ELSE Await("schema", b, "")

\* get() checking the selected columns even when a join is active
getWithSchemaJoinChecked(b, schemaData) ==
    LET columns == Range(columnNames(schemaData)) IN
    IF /\ ~(\A i \in 1..Len(b.selectCols) : b.selectCols[i] \in columns)
       /\ (Len(b.selectCols) = 0 \/ b.selectCols[1] # "*")
    THEN Reject("UnknownColumn", b)
    ELSE execute(b, Trim(JoinStr(nonEmptySlots(b.sql, SlotNames), " ")) \o ";")

\* get() checking the selected columns even when every column was selected
getWithSchemaStarChecked(b, schemaData) ==
    LET columns == Range(columnNames(schemaData)) IN
    IF /\ ~(\A i \in 1..Len(b.selectCols) : b.selectCols[i] \in columns)
       /\ b.sql.join = ""
    THEN Reject("UnknownColumn", b)
    ELSE execute(b, Trim(JoinStr(nonEmptySlots(b.sql, SlotNames), " ")) \o ";")

\* a get() that would write the clauses in the order they have in a SELECT with the
\* RETURNING clause put first
getWithSchemaReturningFirst(b, schemaData) ==
    LET columns == Range(columnNames(schemaData)) IN
    IF /\ ~(\A i \in 1..Len(b.selectCols) : b.selectCols[i] \in columns)
       /\ (Len(b.selectCols) = 0 \/ b.selectCols[1] # "*")
       /\ b.sql.join = ""
    THEN Reject("UnknownColumn", b)
    ELSE execute(b, Trim(JoinStr(nonEmptySlots(b.sql,
                 <<"returning", "select", "join", "on", "where", "order", "desc", "limit">>),
                 " ")) \o ";")

\* get(), from the schema it awaited to #__execute
getWithSchema(b, schemaData) ==
    LET columns == Range(columnNames(schemaData)) IN
    IF /\ ~(\A i \in 1..Len(b.selectCols) : b.selectCols[i] \in columns)
       /\ (Len(b.selectCols) = 0 \/ b.selectCols[1] # "*")
       /\ b.sql.join = ""
    THEN Reject("UnknownColumn", b)
    ELSE execute(b, Trim(JoinStr(nonEmptySlots(b.sql, SlotNames), " ")) \o ";")

\* delete()
delete(b) ==
    execute(b, "DELETE FROM " \o Ident(TableName) \o " " \o b.sql.where \o " " \o b.sql.returning \o ";")

\* update(values); entries is Object.entries(values), each [k |-> key, v |-> value]
update(b, entries) ==
    LET set == [i \in 1..Len(entries) |-> Ident(entries[i].k) \o " = " \o Literal(entries[i].v)] IN
    execute(b, "UPDATE " \o Ident(TableName) \o " SET " \o StrList(set) \o " " \o b.sql.where
                   \o " " \o b.sql.returning \o ";")

\* The schema #__insert works with: the primary-key columns are removed when values
\* carries no truthy value for some primary key
insertSchema(values, primaryKeys, schemaData) ==
    IF \E i \in 1..Len(primaryKeys) : ~Truthy(valuesProp(values, primaryKeys[i].column_name))
    THEN withoutColumns(schemaData, Range(columnNames(primaryKeys)))
    ELSE schemaData

\* the columns #__insert requires of every row: NOT NULL and no default
mandatoryColumns(schemaData) ==
    {schemaData[i].column_name : i \in {j \in 1..Len(schemaData) :
        schemaData[j].is_nullable = "NO" /\ ~Truthy(schemaData[j].column_default)}}

\* the error #__insert throws for one row, "" when it accepts the row
rowError(row, schemaData) ==
    IF \E k \in DOMAIN row : ~ValidSQLName(k) THEN "InvalidIdentifier"
    ELSE IF ~(DOMAIN row \subseteq Range(columnNames(schemaData))) THEN "UnknownColumn"
    ELSE IF ~(\A col \in mandatoryColumns(schemaData) : col \in DOMAIN row /\ Truthy(row[col]))
    THEN "MissingMandatoryColumn"
    ELSE ""

\* the value #__insert writes for one column of one row: values[col] || col.column_default
sortedValue(row, col) ==
    IF Truthy(Prop(row, col.column_name)) THEN Prop(row, col.column_name) ELSE col.column_default

\* sortedValues of one row
sortedValues(row, schemaData) == [i \in 1..Len(schemaData) |-> sortedValue(row, schemaData[i])]

\* #__insert(values), from the primary keys and schema it awaited: the first row error in
\* row order, else the INSERT statement; with the schema and primary keys it hands to upsert
insertSql(values, primaryKeys, fetchedSchema) ==
    LET schemaData == insertSchema(values, primaryKeys, fetchedSchema)
        rows == values.rows
        bad == {i \in 1..Len(rows) : rowError(rows[i], schemaData) # ""}
        sqlValuesString == [i \in 1..Len(rows) |->
                               "(" \o LiteralList(sortedValues(rows[i], schemaData)) \o ")"]
    IN [err |-> IF bad = {} THEN ""
                ELSE rowError(rows[CHOOSE i \in bad : \A j \in bad : i <= j], schemaData),
        sql |-> "INSERT INTO " \o Ident(TableName) \o " (" \o IdentList(columnNames(schemaData))
                    \o ") VALUES " \o StrList(sqlValuesString),
        schemaData |-> schemaData,
        primaryKeys |-> primaryKeys]

\* insert(values), from the awaited primary keys and schema to #__execute
insert(b, values, primaryKeys, fetchedSchema) ==
    LET r == insertSql(values, primaryKeys, fetchedSchema) IN
    IF r.err # "" THEN Reject(r.err, b)
    ELSE execute(b, r.sql \o " " \o b.sql.returning)

\* the SET list of upsert's ON CONFLICT clause
upsertSet(values, columnsToUpdate) ==
    JoinStr([i \in 1..Len(columnsToUpdate) |->
                IF Truthy(valuesProp(values, columnsToUpdate[i].column_name))
                THEN Ident(columnsToUpdate[i].column_name) \o " = EXCLUDED."
                         \o Ident(columnsToUpdate[i].column_name)
                ELSE Ident(columnsToUpdate[i].column_name) \o " = "
                         \o Literal(columnsToUpdate[i].column_default)],
            ", ")

\* upsert(values) whose insert-only branch leaves the RETURNING slot out
upsertWithoutReturning(b, values, primaryKeys, fetchedSchema) ==
    LET r == insertSql(values, primaryKeys, fetchedSchema) IN
    IF r.err # "" THEN Reject(r.err, b)
    ELSE IF Len(r.primaryKeys) = 0 THEN execute(b, r.sql \o " ")
    ELSE LET columnsToUpdate == withoutColumns(r.schemaData, Range(columnNames(r.primaryKeys)))
         IN execute(b, r.sql \o " ON CONFLICT (" \o Ident(r.primaryKeys[1].column_name)
                           \o ") DO UPDATE SET " \o upsertSet(values, columnsToUpdate)
                           \o " " \o b.sql.returning)

\* upsert(values), from the awaited primary keys and schema to #__execute
upsert(b, values, primaryKeys, fetchedSchema) ==
    LET r == insertSql(values, primaryKeys, fetchedSchema) IN
    IF r.err # "" THEN Reject(r.err, b)
    ELSE IF Len(r.primaryKeys) = 0 THEN execute(b, r.sql \o " " \o b.sql.returning)
    ELSE LET columnsToUpdate == withoutColumns(r.schemaData, Range(columnNames(r.primaryKeys)))
         IN execute(b, r.sql \o " ON CONFLICT (" \o Ident(r.primaryKeys[1].column_name)
                           \o ") DO UPDATE SET " \o upsertSet(values, columnsToUpdate)
                           \o " " \o b.sql.returning)

\* first()
first(b) == execute(b, "SELECT * FROM " \o Ident(TableName) \o " LIMIT 1")

\* last(), from the primary keys it awaited: ordered by the keys, or select().get()
last(b, primaryKeys) ==
    IF Len(primaryKeys) > 0
    THEN execute(b, "SELECT * FROM " \o Ident(TableName) \o " ORDER BY ("
                        \o StrList(columnNames(primaryKeys)) \o ") DESC LIMIT 1")
    ELSE get(select(b, <<>>).b)

\* a count(column) that would carry the where clause of the handle
countFiltered(b, column) ==
    IF Truthy(column) /\ ~ValidSQLName(column.v) THEN Reject("InvalidIdentifier", b)
    ELSE execute(b, Trim("SELECT COUNT(" \o (IF Truthy(column) THEN column.v ELSE "*") \o ") FROM "
                        \o Ident(TableName) \o " " \o b.sql.where))

\* count(column); column is undefined when omitted
count(b, column) ==
    IF Truthy(column) /\ ~ValidSQLName(column.v) THEN Reject("InvalidIdentifier", b)
    ELSE execute(b, "SELECT COUNT(" \o (IF Truthy(column) THEN column.v ELSE "*") \o ") FROM "
                        \o Ident(TableName))

\* sum(column)
sum(b, column) ==
    IF ~ValidSQLName(column.v) THEN Reject("InvalidIdentifier", b)
    ELSE execute(b, "SELECT SUM(" \o column.v \o ") FROM " \o Ident(TableName))

\* avg(column, precision); precision is [isNumber, n]
avg(b, column, precision) ==
    IF ~ValidSQLName(column.v) THEN Reject("InvalidIdentifier", b)
    ELSE IF precision.isNumber /\ (precision.n > 100 \/ precision.n < 0)
    THEN Reject("PrecisionOutOfRange", b)
    ELSE execute(b, "SELECT AVG(" \o column.v \o ") FROM " \o Ident(TableName))

\* min(column)
min(b, column) ==
    IF ~ValidSQLName(column.v) THEN Reject("InvalidIdentifier", b)
    ELSE execute(b, "SELECT MIN(" \o column.v \o ") FROM " \o Ident(TableName))

\* max(column)
max(b, column) ==
    IF ~ValidSQLName(column.v) THEN Reject("InvalidIdentifier", b)
    ELSE execute(b, "SELECT MAX(" \o column.v \o ") FROM " \o Ident(TableName))

\* String.prototype.toLowerCase / toUpperCase on the type names used
toLowerCase(s) ==
    CASE s = "PK" -> "pk" [] s = "INT" -> "int" [] s = "String" -> "string" [] OTHER -> s
toUpperCase(s) ==
    CASE s = "int" -> "INT" [] s = "timestamp" -> "TIMESTAMP" [] s = "time" -> "TIME"
      [] s = "date" -> "DATE" [] OTHER -> s

\* the columns of schemaData named name
RECURSIVE columnsNamed(_, _)
columnsNamed(schemaData, name) ==
    IF Len(schemaData) = 0 THEN <<>>
    ELSE IF schemaData[1].column_name = name
    THEN <<schemaData[1]>> \o columnsNamed(Tail(schemaData), name)
    ELSE columnsNamed(Tail(schemaData), name)

\* #__alter(columnData), from the schema it awaited.  columnData is
\* [name, type, length, precision, scale, defaultValue, nullable], name and type strings,
\* the others JavaScript values.
alter(columnData, schemaData) ==
    LET name == columnData.name
        type == toLowerCase(columnData.type)
        initialColumn == columnsNamed(schemaData, name)
        initialDataType == IF Len(initialColumn) = 1 THEN initialColumn[1].data_type ELSE "null"
        typeError ==
            IF type = "string" /\ ~Truthy(columnData.length) THEN "StringNeedsLength"
            ELSE IF type = "float" /\ (~Truthy(columnData.precision) \/ ~Truthy(columnData.scale))
            THEN "FloatNeedsPrecisionScale"
            ELSE IF type \notin {"string", "float", "pk", "int", "timestamp", "time", "date"}
            THEN "UnsupportedType"
            ELSE ""
        sqlType ==
            IF type = "string" THEN "VARCHAR(" \o columnData.length.v \o ")"
            ELSE IF type = "float"
            THEN "DECIMAL(" \o columnData.precision.v \o ", " \o columnData.scale.v \o ")"
            ELSE IF type = "pk" THEN "SERIAL PRIMARY KEY"
            ELSE toUpperCase(type)
    IN [err |-> IF ~ValidSQLName(name) THEN "InvalidIdentifier" ELSE typeError,
        sql |-> "ALTER TABLE " \o Ident(TableName),
        name |-> name,
        sqlType |-> sqlType,
        defaultClause |-> IF columnData.defaultValue.t # "undefined"
                          THEN "DEFAULT " \o Literal(columnData.defaultValue) ELSE "",
        nullClause |-> IF columnData.nullable = JBool("false") THEN "NOT NULL" ELSE "",
        initialColumn |-> initialColumn,
        initialDataType |-> initialDataType]

\* add(columnData) without its check that no column has the name yet
addOverExisting(b, columnData, schemaData) ==
    LET a == alter(columnData, schemaData) IN
    IF a.err # "" THEN Reject(a.err, b)
    ELSE IF columnData.type = "pk" /\ Truthy(columnData.defaultValue)
    THEN Reject("SerialWithDefault", b)
    ELSE execute(b, a.sql \o " ADD COLUMN " \o Ident(a.name) \o " " \o a.sqlType \o " "
                        \o a.nullClause \o " " \o a.defaultClause \o ";")

\* add(columnData), from the schema #__alter awaited to #__execute
add(b, columnData, schemaData) ==
    LET a == alter(columnData, schemaData) IN
    IF a.err # "" THEN Reject(a.err, b)
    ELSE IF Len(a.initialColumn) > 0 THEN Reject("DuplicateColumn", b)
    ELSE IF columnData.type = "pk" /\ Truthy(columnData.defaultValue)
    THEN Reject("SerialWithDefault", b)
    ELSE execute(b, a.sql \o " ADD COLUMN " \o Ident(a.name) \o " " \o a.sqlType \o " "
                        \o a.nullClause \o " " \o a.defaultClause \o ";")

numericTypes == {"integer", "decimal", "smallint", "bigint", "real", "double precision", "numeric"}

dateTypes == {"date", "time", "timestamp", "timestamp without time zone", "interval"}

\* modify(columnData), from the schema #__alter awaited to #__execute
modify(b, columnData, schemaData) ==
    LET a == alter(columnData, schemaData)
        type == columnData.type
        nullAction == IF a.nullClause # ""
                      THEN a.sql \o " ALTER COLUMN " \o Ident(a.name) \o " SET " \o a.nullClause \o ";"
                      ELSE ""
        defaultAction == IF a.defaultClause # ""
                         THEN a.sql \o " ALTER COLUMN " \o Ident(a.name) \o " SET "
                                  \o a.defaultClause \o ";"
                         ELSE ""
    IN
    IF a.err # "" THEN Reject(a.err, b)
    ELSE IF Len(a.initialColumn) = 0 THEN Reject("ColumnNotFound", b)
    ELSE IF type \in {"float", "int"} /\ a.initialDataType \notin numericTypes
    THEN Reject("NonNumericToNumeric", b)
    ELSE IF type \in {"date", "time", "timestamp"} /\ a.initialDataType \notin dateTypes
    THEN Reject("NonDateToDate", b)
    ELSE IF type \notin {"float", "int", "date", "time", "timestamp", "string"}
    THEN Reject("UnsupportedType", b)
    ELSE execute(b, a.sql \o " ALTER COLUMN " \o Ident(a.name) \o " TYPE " \o a.sqlType \o "; "
                        \o nullAction \o " " \o defaultAction)

\* rename(oldName, newName), up to its first await
rename(b, oldName, newName) ==
    IF ~ValidSQLName(oldName) \/ ~ValidSQLName(newName) THEN Reject("InvalidIdentifier", b)
    ELSE Await("schema", b, "")

\* rename(oldName, newName), from the schema it awaited to #__execute
renameWithSchema(b, oldName, newName, schemaData) ==
    IF oldName \notin Range(columnNames(schemaData)) THEN Reject("ColumnNotFound", b)
    ELSE execute(b, "ALTER TABLE " \o Ident(TableName) \o " RENAME COLUMN " \o Ident(oldName)
                        \o " TO " \o Ident(newName))

\* del(column), up to its first await
del(b, column) ==
    IF ~ValidSQLName(column) THEN Reject("InvalidIdentifier", b)
    ELSE Await("schema", b, "")

\* del(column), from the schema it awaited to #__execute
delWithSchema(b, column, schemaData) ==
    IF column \notin Range(columnNames(schemaData)) THEN Reject("ColumnNotFound", b)
    ELSE execute(b, "ALTER TABLE " \o Ident(TableName) \o " DROP COLUMN " \o Ident(column))

(***************************************************************************)
(* Model: the pool and decorator.                                          *)
(***************************************************************************)
\* clients the pool can hand out at the same time
PoolSize == 2

PoolClients == 1..PoolSize

\* a decorator that releases the client after the try block instead of in finally
decoratorReleaseAfterTry(heldClients, client, resolved) ==
    IF resolved THEN heldClients \ {client} ELSE heldClients

\* decorator's finally block: the client goes back to the pool whether fn resolved or threw
decoratorFinally(heldClients, client, resolved) == heldClients \ {client}

\* Model.exists: what the existence query answers for the server's tables
exists(tableName, serverTables) == tableName \in serverTables

\* Model.createTable without its check of the table's existence
createTableOverExisting(b, tableName, tableExists) ==
    IF ~ValidSQLName(tableName) THEN Reject("InvalidIdentifier", b)
    ELSE Await("ddl", b, "CREATE TABLE " \o Ident(tableName) \o " ()")

\* Model.createTable, from the answer of exists() on
createTable(b, tableName, tableExists) ==
    IF tableExists THEN Reject("TableAlreadyExists", b)
    ELSE IF ~ValidSQLName(tableName) THEN Reject("InvalidIdentifier", b)
    ELSE Await("ddl", b, "CREATE TABLE " \o Ident(tableName) \o " ()")

\* Model.deleteTable, from the answer of exists() on
deleteTable(b, tableName, tableExists) ==
    IF ~tableExists THEN Reject("TableNotFound", b)
    ELSE IF ~ValidSQLName(tableName) THEN Reject("InvalidIdentifier", b)
    ELSE Await("ddl", b, "DROP TABLE " \o Ident(tableName))

\* Model.table: the name is validated, then a new handle is made
table(b, tableName) ==
    IF ~ValidSQLName(tableName) THEN Threw("InvalidIdentifier", b)
    ELSE Returned(NewHandle)

(***************************************************************************)
(* The inputs of the calls.                                                *)
(***************************************************************************)
SelectArgs == {<<>>, <<"name">>, <<"*", "bogus">>}

OnEq == <<JStr("tests.id"), JStr("users_addresses.user_id")>>
OnOp == <<JStr("tests.id"), JStr("<"), JStr("users_addresses.user_id")>>
OnArgs == {OnEq, <<>>}
OnMoreArgs == {OnOp}

WhereEq == <<JStr("job"), JStr("rat")>>
WhereOp == <<JStr(" age "), JStr(">"), JNum("30")>>
WhereArgs == {WhereEq, <<JStr("age")>>}
WhereMoreArgs == {WhereOp}

\* every shape of arguments where / and / or may be called with
WhereIn == <<JStr("job"), JArr(<<JStr("rat"), JStr("cat")>>)>>
WhereNull == <<JStr("job"), JNull>>
WhereAnyArgs ==
    { WhereEq, WhereOp, WhereIn, WhereNull, <<JStr("age"), JNum("30")>>,
      <<>>, <<JStr("age")>>, <<JStr("job"), JBool("true")>>, <<JStr("job"), JUndef>>,
      <<JStr("job"), JStr("like"), JStr("rat")>>,
      <<JStr("job"), JStr("="), JStr("rat"), JStr("cat")>>,
      <<JNum("1"), JStr("rat")>>, <<JNull, JStr("="), JStr("rat")>>,
      <<JNum("1"), JArr(<<JStr("rat")>>)>> }

\* table names given to the Model: a table the server has, one it has not, and a name
\* that is no SQL identifier
TableNames == {"tests", "users", "my table"}

OtherTable == "users_addresses"

JoinArgs ==
    { [fn |-> FALSE, args |-> <<>>, calls |-> <<>>],
      [fn |-> FALSE, args |-> OnEq, calls |-> <<>>] }

ReturningArgs == {<<"name">>}

OrderByArgs == {<<"name">>}

\* column names for orderBy, one of them no plain identifier
OrderByAnyArgs == {<<"name">>, <<"name; DROP TABLE tests">>}

LimitArgs == {"2"}

UpdateArgs == {<<[k |-> "job", v |-> JStr("rat")]>>}

\* row objects over the keys ks, each key absent or carrying one of its values
RowKeys == {"id", "name", "job", "weather", "bad key"}
RowValues ==
    [id |-> {JNum("5"), JNum("0")}, name |-> {JStr("Bob"), JStr("")},
     job |-> {JStr("rat"), JBool("false")}, weather |-> {JStr("hot")}]
    @@ ("bad key" :> {JStr("x")})

RowsOver(ks) == UNION {[d -> UNION {RowValues[k] : k \in d}] : d \in SUBSET ks}

\* the row objects: each key has one of its own values; a key that no table has comes
\* alone or beside a name
AllRows == {r \in RowsOver(RowKeys) :
               /\ \A k \in DOMAIN r : r[k] \in RowValues[k]
               /\ DOMAIN r \cap {"weather", "bad key"} # {}
                    => DOMAIN r \in {{"weather"}, {"bad key"}, {"weather", "name"},
                                     {"bad key", "name"}}}

\* a row object or an array of up to MaxRows row objects drawn from `rows`
ValuesOver(rows) ==
    {[isArray |-> FALSE, rows |-> <<r>>] : r \in rows}
    \cup {[isArray |-> TRUE, rows |-> rs] : rs \in UNION {[1..n -> rows] : n \in 0..MaxRows}}

\* the rows insert / upsert are called with beside the builder's other calls
SomeRows ==
    { [name |-> JStr("Bob")],
      [job |-> JStr("rat")] }

NoValues == [isArray |-> FALSE, rows |-> <<>>]

\* a columnData object; newName is the second argument of rename()
ColumnData(name, type) ==
    [name |-> name, type |-> type, length |-> JUndef, precision |-> JUndef, scale |-> JUndef,
     defaultValue |-> JUndef, nullable |-> JUndef, newName |-> ""]

NoColumn == ColumnData("", "")

CountArgs == {JUndef, JStr("job")}
SumArgs == {JStr("job"), JStr("bad name")}
NoPrecision == [isNumber |-> FALSE, n |-> 0]
AvgArgs == {<<JStr("job"), NoPrecision>>, <<JStr("job"), [isNumber |-> TRUE, n |-> 101]>>}
MinArgs == {JStr("job")}
MaxArgs == {JStr("job")}

AddArgs ==
    { ColumnData("age", "int"),
      [ColumnData("name", "string") EXCEPT !.length = JNum("64")] }
ModifyArgs ==
    { [ColumnData("name", "string") EXCEPT !.length = JNum("64")],
      ColumnData("name", "int") }
RenameArgs == {<<"name", "title">>, <<"nope", "title">>}
DelArgs == {"job", "nope"}

\* columnData objects of every type name, in the letter cases toLowerCase folds, carrying
\* the length / precision / scale their type requires
TypeNames == {"int", "float", "date", "time", "timestamp", "string", "pk", "INT", "PK"}
WellFormed(name, type) ==
    [ColumnData(name, type) EXCEPT
        !.length = IF toLowerCase(type) = "string" THEN JNum("64") ELSE JUndef,
        !.precision = IF type = "float" THEN JNum("5") ELSE JUndef,
        !.scale = IF type = "float" THEN JNum("2") ELSE JUndef]
DefaultValues == {JUndef, JNum("12"), JNum("0")}
AddAnyArgs ==
    {[WellFormed(n, t) EXCEPT !.defaultValue = d] :
        n \in {"age", "gpa"}, t \in TypeNames, d \in DefaultValues}
ModifyAnyArgs ==
    {WellFormed(n, t) : n \in {"name", "gpa", "date_of_birth", "nope"}, t \in TypeNames}
    \cup {ColumnData("gpa", "float")}

(***************************************************************************)
(* The file backend: CSVDatabase over one table file and CSVQueryBuilder.  *)
(* The content of the file is the sequence of its records, each a sequence *)
(* of cells as written, the header first.  Empty lines are not kept: both  *)
(* parse calls skip them (skip_empty_lines), and nothing else reads the    *)
(* file.  A row object is a function from its keys to JavaScript values.   *)
(***************************************************************************)
\* the characters of the values used, in code-unit order
CodeOrder == " 0123456789ABCDEFGHIJKLMNOPQRSTUVWXYZ_abcdefghijklmnopqrstuvwxyz"

\* a < b on two strings: code unit by code unit, a proper prefix first
RECURSIVE StrLess(_, _)
StrLess(a, b) ==
    LET code(ch) == CHOOSE i \in 1..Len(CodeOrder) : CharAt(CodeOrder, i) = ch IN
    IF Len(b) = 0 THEN FALSE
    ELSE IF Len(a) = 0 THEN TRUE
    ELSE IF CharAt(a, 1) = CharAt(b, 1) THEN StrLess(Slice(a, 1), Slice(b, 1))
    ELSE code(CharAt(a, 1)) < code(CharAt(b, 1))

\* csv-parse with trim: every cell of every record, trimmed
parse(content) ==
    [i \in 1..Len(content) |-> [j \in 1..Len(content[i]) |-> Trim(content[i][j])]]

\* the text csv-stringify writes for one field: a string as it is, a number as
\* String(n), true as 1, and false, null, undefined as nothing
Cast(x) ==
    IF x.t \in {"string", "number"} THEN x.v
    ELSE IF x = JBool("true") THEN "1"
    ELSE ""

\* the records, dropping those whose line is empty: no field, or one empty field
RECURSIVE skipEmptyLines(_)
skipEmptyLines(records) ==
    IF Len(records) = 0 THEN <<>>
    ELSE IF Len(records[1]) = 0 \/ records[1] = <<"">> THEN skipEmptyLines(Tail(records))
    ELSE <<records[1]>> \o skipEmptyLines(Tail(records))

\* csv-stringify(rows, {columns}): one record per row, holding the row's fields for the
\* columns, in their order; a key of the row that is no column is left out
stringify(rows, columns) ==
    skipEmptyLines([i \in 1..Len(rows) |->
                       [j \in 1..Len(columns) |-> Cast(Prop(rows[i], columns[j]))]])

\* CSVDatabase.getColumns
getColumns(content) == IF Len(content) = 0 THEN <<>> ELSE parse(content)[1]

\* CSVDatabase.readTable: the records after the header, as objects keyed by the header
readTable(content) ==
    LET records == parse(content)
        columns == records[1]
        at(c) == CHOOSE j \in 1..Len(columns) : columns[j] = c
    IN [i \in 1..Len(records) - 1 |->
           [c \in Range(columns) |-> JStr(records[i + 1][at(c)])]]

\* CSVDatabase.writeToTable: the rows are appended under the columns of the header
writeToTable(content, values) ==
    IF Len(values.rows) = 0 THEN content
    ELSE content \o stringify(values.rows, getColumns(content))

\* this._where.every((con) => con(row)); a condition [col, val] stands for the callback
\* row => row[col] === val
every(conditions, row) ==
    \A i \in 1..Len(conditions) : Prop(row, conditions[i].col) = conditions[i].val

\* Array.prototype.filter by the conditions, keeping the rows that meet them all (keep
\* TRUE) or the others (keep FALSE)
RECURSIVE filter(_, _, _)
filter(rows, conditions, keep) ==
    IF Len(rows) = 0 THEN <<>>
    ELSE IF every(conditions, rows[1]) = keep
    THEN <<rows[1]>> \o filter(Tail(rows), conditions, keep)
    ELSE filter(Tail(rows), conditions, keep)

\* CSVDatabase.deleteRows; no condition is passed when conditions is empty
deleteRows(content, conditions) ==
    LET allRows == readTable(content)
        rowsToKeep == IF Len(conditions) > 0 THEN filter(allRows, conditions, FALSE) ELSE <<>>
        columns == getColumns(content)
    IN <<columns>> \o stringify(rowsToKeep, columns)

\* {...row, ...data}
spread(row, data) ==
    [k \in DOMAIN row \cup DOMAIN data |-> IF k \in DOMAIN data THEN data[k] ELSE row[k]]

\* CSVDatabase.updateTable: [err, content]
updateTable(content, conditions, data) ==
    LET allRows == readTable(content)
        columns == getColumns(content)
        updatedRows == [i \in 1..Len(allRows) |->
                           IF Len(conditions) = 0 \/ every(conditions, allRows[i])
                           THEN spread(allRows[i], data) ELSE allRows[i]]
    IN IF ~(DOMAIN data \subseteq Range(columns))
       THEN [err |-> "UnknownColumn", content |-> content]
       ELSE [err |-> "", content |-> <<columns>> \o stringify(updatedRows, columns)]

\* CSVDatabase.appendColumns: [err, content]
appendColumns(content, columns) ==
    LET allColumns == getColumns(content)
        newHeader == allColumns \o columns
    IN IF Range(columns) \cap Range(allColumns) # {}
       THEN [err |-> "DuplicateColumn", content |-> content]
       ELSE [err |-> "", content |-> <<newHeader>> \o stringify(readTable(content), newHeader)]

\* CSVDatabase.deleteColumns: [err, content]
deleteColumns(content, columns) ==
    LET allColumns == getColumns(content)
        newColumns == Without(allColumns, Range(columns))
    IN IF ~(Range(columns) \subseteq Range(allColumns))
       THEN [err |-> "ColumnNotFound", content |-> content]
       ELSE [err |-> "", content |-> <<newColumns>> \o stringify(readTable(content), newColumns)]

\* new CSVDatabase('./DB'): the folder path, ending in a slash
databasePath == "./DB/"

\* String.prototype.includes
includes(s, sub) == \E i \in 1..(Len(s) + 1 - Len(sub)) : SubSeq(s, i, i + Len(sub) - 1) = sub

\* CSVDatabase.table: [err, path], the path of the file the builder will work on
csvTable(tableName) ==
    IF includes(tableName, "..") THEN [err |-> "InvalidTableName", path |-> ""]
    ELSE [err |-> "", path |-> databasePath \o tableName]

\* CSVDatabase.createTable: fs.promises.writeFile(path, ''): [err, paths], the files
\* there are afterwards
csvCreateTable(paths, tableName) ==
    [err |-> "", paths |-> paths \cup {databasePath \o tableName \o ".csv"}]

\* CSVDatabase.deleteTable: fs.promises.rm(path), which rejects when there is no such file
csvDeleteTable(paths, tableName) ==
    LET path == databasePath \o tableName \o ".csv" IN
    IF path \in paths THEN [err |-> "", paths |-> paths \ {path}]
    ELSE [err |-> "ENOENT", paths |-> paths]

\* the awaits of a call on the file: update and delete read the rows, read the header,
\* then write; insert reads the header, then appends
lastStep(o) == IF o.name = "insert" THEN 2 ELSE 3

\* the call o resumes from an await that read the file: it holds the rows or the header
afterRead(o, content) ==
    IF o.name # "insert" /\ o.pc = 1 THEN [o EXCEPT !.allRows = readTable(content), !.pc = 2]
    ELSE [o EXCEPT !.columns = getColumns(content), !.pc = @ + 1]

\* the file once the writeFile / appendFile of the call o has been done: updateTable and
\* deleteRows write the rows they read, changed, over the file; writeToTable appends
afterWrite(o, content) ==
    IF o.name = "insert" THEN content \o stringify(o.values.rows, o.columns)
    ELSE IF o.name = "delete"
    THEN <<o.columns>> \o stringify(IF Len(o.conditions) > 0
                                     THEN filter(o.allRows, o.conditions, FALSE) ELSE <<>>,
                                     o.columns)
    ELSE <<o.columns>> \o
         stringify([i \in 1..Len(o.allRows) |->
                       IF Len(o.conditions) = 0 \/ every(o.conditions, o.allRows[i])
                       THEN spread(o.allRows[i], o.values.rows[1]) ELSE o.allRows[i]],
                   o.columns)

\* QueryBuilder / CSVQueryBuilder constructor
NewBuilder ==
    [_select |-> <<>>, _where |-> <<>>, _order |-> <<>>, _returning |-> <<>>,
     _desc |-> FALSE, _alter |-> <<>>]

\* columns?.length ? columns.filter((col) => col !== '*') : ['*']
starOr(columns) == IF Len(columns) > 0 THEN Without(columns, {"*"}) ELSE <<"*">>

\* QueryBuilder.select / where / returning / orderBy / desc / alter
csvSelect(q, columns) == [q EXCEPT !._select = starOr(columns)]
csvWhere(q, condition) == [q EXCEPT !._where = Append(@, condition)]
csvReturning(q, columns) == [q EXCEPT !._returning = starOr(columns)]
csvOrderBy(q, columns) == [q EXCEPT !._order = starOr(columns)]
csvDesc(q) == [q EXCEPT !._desc = TRUE]
csvAlter(q, columns) == [q EXCEPT !._alter = IF Len(columns) > 0 THEN columns ELSE <<"*">>]

\* the rows with only those of the named columns they have
pick(rows, columns) ==
    [i \in 1..Len(rows) |-> [c \in Range(columns) \cap DOMAIN rows[i] |-> rows[i][c]]]

\* a[column] > b[column], false when either row lacks the column
greater(a, b, column) ==
    /\ column \in DOMAIN a /\ column \in DOMAIN b
    /\ StrLess(b[column].v, a[column].v)

\* Array.prototype.sort with the comparator of get(): stable, ascending on the column
RECURSIVE sort(_, _)
sort(data, column) ==
    IF Len(data) <= 1 THEN data
    ELSE LET sorted == sort(SubSeq(data, 1, Len(data) - 1), column)
             x == data[Len(data)]
             k == Cardinality({i \in 1..Len(sorted) : ~greater(sorted[i], x, column)})
         IN SubSeq(sorted, 1, k) \o <<x>> \o SubSeq(sorted, k + 1, Len(sorted))

\* Array.prototype.reverse
reverse(data) == [i \in 1..Len(data) |-> data[Len(data) + 1 - i]]

\* get() that sorts downwards when desc() was called, instead of reversing the rows
csvGetSortedDownwards(q, content) ==
    LET read == readTable(content)
        filtered == IF Len(q._where) > 0 THEN filter(read, q._where, TRUE) ELSE read
        projected == IF Len(q._select) > 0 /\ q._select[1] # "*"
                     THEN pick(filtered, q._select) ELSE filtered
        ordered == IF Len(q._order) > 0 THEN sort(projected, q._order[1]) ELSE projected
        ties(x) == {i \in 1..Len(ordered) : ~greater(ordered[i], x, q._order[1])
                                            /\ ~greater(x, ordered[i], q._order[1])}
        \* the rows from the greatest down, each group of equal rows in its order
        down == [i \in 1..Len(ordered) |->
                    LET x == ordered[Len(ordered) + 1 - i]
                        lo == CHOOSE j \in ties(x) : \A k \in ties(x) : j <= k
                        hi == CHOOSE j \in ties(x) : \A k \in ties(x) : j >= k
                    IN ordered[lo + hi - (Len(ordered) + 1 - i)]]
    IN IF q._desc /\ Len(q._order) > 0 THEN down
       ELSE IF q._desc THEN reverse(ordered) ELSE ordered

\* CSVQueryBuilder.get: the rows it resolves with
csvGet(q, content) ==
    LET read == readTable(content)
        filtered == IF Len(q._where) > 0 THEN filter(read, q._where, TRUE) ELSE read
        projected == IF Len(q._select) > 0 /\ q._select[1] # "*"
                     THEN pick(filtered, q._select) ELSE filtered
        ordered == IF Len(q._order) > 0 THEN sort(projected, q._order[1]) ELSE projected
    IN IF q._desc THEN reverse(ordered) ELSE ordered

\* what delete / insert / update resolve with, given the rows `returning` applies to
returned(q, rows) ==
    IF Len(q._returning) > 0 /\ "*" \notin Range(q._returning) THEN pick(rows, q._returning)
    ELSE IF Len(q._returning) > 0 /\ q._returning[1] = "*" THEN rows
    ELSE <<>>

\* the outcome of a call on the file backend: the error it rejects with ("" when it
\* resolves), the file afterwards, and the rows or the count it resolves with
CsvOutcome(err, content, rows, n) == [err |-> err, content |-> content, rows |-> rows, count |-> n]

\* CSVQueryBuilder.delete
csvDelete(q, content) ==
    LET rowsToDelete == IF Len(q._returning) = 0 THEN <<>>
                        ELSE IF Len(q._where) > 0 THEN filter(readTable(content), q._where, TRUE)
                        ELSE readTable(content)
    IN CsvOutcome("", deleteRows(content, q._where), returned(q, rowsToDelete), 0)

\* CSVQueryBuilder.insert; values is NoValues when the argument is missing
csvInsert(q, content, values) ==
    IF values = NoValues THEN CsvOutcome("MissingValues", content, <<>>, 0)
    ELSE CsvOutcome("", writeToTable(content, values), returned(q, values.rows), 0)

\* CSVQueryBuilder.update; values is NoValues when the argument is missing
csvUpdate(q, content, values) ==
    LET rowsToUpdate == IF Len(q._returning) = 0 THEN <<>>
                        ELSE IF Len(q._where) > 0 THEN filter(readTable(content), q._where, TRUE)
                        ELSE readTable(content)
        u == updateTable(content, q._where, values.rows[1])
    IN IF values = NoValues THEN CsvOutcome("MissingValues", content, <<>>, 0)
       ELSE IF u.err # "" THEN CsvOutcome(u.err, content, <<>>, 0)
       ELSE CsvOutcome("", u.content, returned(q, rowsToUpdate), 0)

\* CSVQueryBuilder.addColumns
addColumns(q, content) ==
    LET a == appendColumns(content, q._alter) IN
    IF q._alter = <<"*">> THEN CsvOutcome("NoColumnsToAdd", content, <<>>, 0)
    ELSE CsvOutcome(a.err, a.content, <<>>, 0)

\* CSVQueryBuilder.removeColumns
removeColumns(q, content) ==
    LET d == deleteColumns(content, IF q._alter = <<"*">> THEN getColumns(content) ELSE q._alter)
    IN CsvOutcome(d.err, d.content, <<>>, 0)

\* CSVQueryBuilder.count / first / last; first and last resolve with undefined (no row)
\* when get() has no row
csvCount(q, content) == CsvOutcome("", content, <<>>, Len(csvGet(q, content)))
csvFirst(q, content) ==
    LET data == csvGet(q, content) IN
    CsvOutcome("", content, IF Len(data) > 0 THEN <<data[1]>> ELSE <<>>, 0)
csvLast(q, content) ==
    LET data == csvGet(q, content) IN
    CsvOutcome("", content, IF Len(data) > 0 THEN <<data[Len(data)]>> ELSE <<>>, 0)

\* the arguments of the calls on the file backend
CsvSelectArgs == {<<>>, <<"first_name">>}
CsvWhereArgs == {[col |-> "first_name", val |-> JStr("Bob")], [col |-> "salary", val |-> JStr("1000")]}
CsvReturningArgs == {<<>>, <<"first_name">>}
CsvOrderByArgs == {<<"salary">>, <<"first_name">>}
CsvAlterArgs == {<<"salary">>}
CsvAlterAnyArgs == {<<"salary">>, <<"age">>, <<"age", "city">>, <<"age", "age">>}
CsvReturningAnyArgs == {<<>>, <<"first_name">>, <<"*">>, <<"bogus", "salary">>}
CsvRows ==
    { [first_name |-> JStr("Bob"), salary |-> JStr("900")],
      [first_name |-> JStr(" Al"), salary |-> JStr("1000")],
      [first_name |-> JStr("Bob"), bogus |-> JStr("x")] }
CsvInsertArgs == ValuesOver(CsvRows) \cup {NoValues}
CsvUpdateArgs ==
    {NoValues} \cup {[isArray |-> FALSE, rows |-> <<r>>] :
                        r \in {[salary |-> JStr("1000")], [first_name |-> JStr("")],
                               [bogus |-> JStr("x")]}}

\* table names given to createTable / deleteTable, and table paths given to table()
CsvTableNames == {"tests", "users", "jobs", "../secret", "../evil", "a/../../b"}
CsvTablePaths == {"tests.csv", "users.csv", "../secret.csv"}

\* the calls that may be in flight together on the table's file: name, the predicates
\* of where(), and the argument
RaceCalls ==
    { [name |-> "update", conditions |-> <<[col |-> "first_name", val |-> JStr("Bob")]>>,
       values |-> [isArray |-> FALSE, rows |-> <<[salary |-> JStr("1000")]>>]],
      [name |-> "update", conditions |-> <<>>,
       values |-> [isArray |-> FALSE, rows |-> <<[first_name |-> JStr("Al")]>>]],
      [name |-> "delete", conditions |-> <<[col |-> "first_name", val |-> JStr("Bob")]>>,
       values |-> NoValues],
      [name |-> "insert", conditions |-> <<>>,
       values |-> [isArray |-> FALSE,
                   rows |-> <<[first_name |-> JStr("Bob"), salary |-> JStr("900")]>>]] }

\* no call made yet on the file backend
NoOut == [name |-> "", err |-> "", rows |-> <<>>, count |-> 0, values |-> NoValues]

\* a new builder over the table whose file holds `content`
CsvStart(content) ==
    [file |-> content, q |-> NewBuilder, out |-> NoOut, n |-> 0,
     paths |-> {databasePath \o "tests.csv", databasePath \o "../secret.csv"}, tableName |-> "",
     ops |-> <<>>, done |-> <<>>, base |-> content, awaited |-> TRUE,
     asked |-> [called |-> FALSE, columns |-> <<>>]]

(***************************************************************************)
(* State.                                                                  *)
(***************************************************************************)
VARIABLES
    handle,     \* the table handle: [sql, selectCols (_select), orderCols (_order)]
    db,         \* the server's catalog for the table: [schema, pks]
    frames,     \* the decorator invocations in flight, innermost last: [phase, client],
                \* client 0 while pool.connect() is awaited
    call,       \* the terminal call in flight: [name, values, column, stmt, pks, acq, rel];
                \* acq the clients its decorator invocations have obtained from the
                \* pool, rel the client.release() calls made for it
    held,       \* the clients checked out of the pool
    outcome,    \* the last call made: [name, err, stmt, acq, rel]; err "" when it
                \* returned / resolved, "pending" while it is in flight, else the error
                \* it threw / rejected with; stmt the statement it sent, if any
    nChain,     \* chained calls since the slots were last cleared
    maxChain,   \* the bound on nChain in this run
    selected,   \* history: select() was called since the handle was made / last cleared
    onApplied,  \* history: on() has been applied since the latest join call
    nAlter,     \* ALTER TABLE statements the server has applied
    tx,         \* the client begin() holds for the open transaction, 0 when none is open
    preds,      \* history of where / and / or: made, the calls [name, args] that returned
                \* since where() last set the WHERE slot; last, the latest call
    tables,     \* the names of the tables the server has
    pool,       \* the clients the pool of the Model has: the pool's capacity
    peer,       \* a second handle of the same model and its call in flight: b the
                \* handle; phase the query its call awaits ("idle" when none is in
                \* flight); client the client of that query's decorator; stmt the
                \* statement compiled; out the last call, [name, err, stmt]
    csv         \* the file backend: [file, q, out, n, paths, tableName]; file the records
                \* of the table's file, header first; q the CSVQueryBuilder in use; out the
                \* last call made on it, [name, err, rows, count]; n the chained calls made
                \* on q; paths the files there are; tableName the name given to the latest
                \* call on the CSVDatabase; ops the calls in flight on the file, each with
                \* what it has read so far; done the calls that resolved since the file
                \* was base; awaited whether the caller awaits each call before the next;
                \* asked the latest returning() call made on q, if any was

vars == <<handle, db, frames, call, held, outcome, nChain, maxChain, selected, onApplied,
          nAlter, tx, csv, preds, tables, peer, pool>>

\* no call in flight; table is the name given to the latest call on the Model, sql the
\* clauses the handle held when the call in flight was made
NoCall == [name |-> "", values |-> NoValues, column |-> NoColumn, stmt |-> "", pks |-> <<>>,
           acq |-> 0, rel |-> 0, table |-> "", sql |-> EmptySql]

NoPreds == [made |-> <<>>, last |-> [name |-> "", args |-> <<>>]]

\* a second handle as table() returns it, no call of it in flight
NewPeer ==
    [b |-> NewHandle, phase |-> "idle", client |-> 0, stmt |-> "",
     out |-> [name |-> "", err |-> "", stmt |-> ""]]

Idle == frames = <<>>

\* a handle fresh from Model.table(TableName), nothing in flight
FreshSql ==
    /\ handle = NewHandle
    /\ frames = <<>>
    /\ call = NoCall
    /\ held = {}
    /\ outcome = [name |-> "", err |-> "", stmt |-> "", acq |-> 0, rel |-> 0]
    /\ nChain = 0
    /\ selected = FALSE
    /\ onApplied = FALSE
    /\ nAlter = 0
    /\ tx = 0
    /\ preds = NoPreds
    /\ tables = {TableName}
    /\ peer = NewPeer
    /\ pool = PoolClients

\* the same, the file backend not in use
Fresh ==
    /\ FreshSql
    /\ csv = CsvStart(<<>>)

Init ==
    /\ Fresh
    /\ db \in Catalogs
    /\ maxChain = MaxChain

InitInsert ==
    /\ Fresh
    /\ db \in Catalogs
    /\ maxChain = MaxChainFew

InitTx ==
    /\ Fresh
    /\ db = [schema |-> <<nameFieldMock, jobFieldMock>>, pks |-> <<>>]
    /\ maxChain = MaxChainFew

InitChain ==
    /\ Fresh
    /\ db = [schema |-> <<nameFieldMock, jobFieldMock>>, pks |-> <<>>]
    /\ maxChain = MaxChainOnly

\* the SQL handle unused; a table file with its header and no row, and a new builder on it
InitCsv ==
    /\ FreshSql
    /\ db = [schema |-> <<nameFieldMock, jobFieldMock>>, pks |-> <<>>]
    /\ maxChain = MaxCsvChainFew
    /\ csv = CsvStart(<<<<"first_name", "salary">>>>)

InitCsvRead ==
    /\ FreshSql
    /\ db = [schema |-> <<nameFieldMock, jobFieldMock>>, pks |-> <<>>]
    /\ maxChain = MaxCsvChain
    /\ csv = CsvStart(<<<<"first_name", "salary">>>>)

\* the Model alone: the server may have a table whose name is no plain identifier
ModelStart ==
    /\ handle = NewHandle
    /\ frames = <<>>
    /\ call = NoCall
    /\ held = {}
    /\ outcome = [name |-> "", err |-> "", stmt |-> "", acq |-> 0, rel |-> 0]
    /\ nChain = 0
    /\ selected = FALSE
    /\ onApplied = FALSE
    /\ nAlter = 0
    /\ tx = 0
    /\ preds = NoPreds
    /\ peer = NewPeer
    /\ tables \in {{TableName}, {TableName, "my table"}}
    /\ csv = CsvStart(<<>>)
    /\ db = [schema |-> <<nameFieldMock, jobFieldMock>>, pks |-> <<>>]
    /\ maxChain = MaxChain

InitModel ==
    /\ ModelStart
    /\ pool = PoolClients

\* the Model alone, its pool of any capacity from one client to PoolSize clients
InitPool ==
    /\ ModelStart
    /\ pool \in {1..n : n \in 1..PoolSize}

\* two handles of one Model
InitHandles ==
    /\ Fresh
    /\ db = [schema |-> <<nameFieldMock, jobFieldMock>>, pks |-> <<>>]
    /\ maxChain = MaxChainFew

\* a table file with one row; the caller awaits each call, or does not
InitCsvRace ==
    /\ FreshSql
    /\ db = [schema |-> <<nameFieldMock, jobFieldMock>>, pks |-> <<>>]
    /\ maxChain = MaxCsvChainFew
    /\ \E awaited \in BOOLEAN :
          csv = [CsvStart(<<<<"first_name", "salary">>, <<"Bob", "900">>>>)
                    EXCEPT !.awaited = awaited]

\* a table with a text, a numeric and a date column, for the DDL calls
InitDDL ==
    /\ Fresh
    /\ db = [schema |-> <<nameFieldMock, gpaFieldMock, dateFieldMock>>, pks |-> <<>>]
    /\ maxChain = MaxChainFew

(***************************************************************************)
(* Chained calls: synchronous, made between terminal calls.                *)
(***************************************************************************)
\* a chained method returned or threw: r is what it left behind
Chained(name, r) ==
    /\ Idle
    /\ nChain < maxChain
    /\ handle' = r.b
    /\ outcome' = [name |-> name, err |-> r.err, stmt |-> "", acq |-> 0, rel |-> 0]
    /\ nChain' = nChain + 1
    /\ UNCHANGED <<db, maxChain, pool, csv, preds, tables, peer, tx, frames, call, held, nAlter>>

Select ==
    \E columns \in SelectArgs :
        /\ Chained("select", select(handle, columns))
        /\ selected' = TRUE
        /\ UNCHANGED onApplied

\* whether a join call with arguments j applied on() to the join it set
joinAppliesOn(b, j) ==
    IF j.fn
    THEN \E n \in 1..Len(j.calls) :
            j.calls[n].m = "on" /\ applyCallback(b, SubSeq(j.calls, 1, n)).err = ""
    ELSE Len(j.args) > 0 /\ on(b, j.args).err = ""

InnerJoin ==
    \E j \in JoinArgs :
        /\ Chained("innerJoin", innerJoin(handle, OtherTable, j))
        /\ onApplied' = joinAppliesOn(handle, j)
        /\ UNCHANGED selected

LeftJoin ==
    \E j \in JoinArgs :
        /\ Chained("leftJoin", leftJoin(handle, OtherTable, j))
        /\ onApplied' = joinAppliesOn(handle, j)
        /\ UNCHANGED selected

RightJoin ==
    \E j \in JoinArgs :
        /\ Chained("rightJoin", rightJoin(handle, OtherTable, j))
        /\ onApplied' = joinAppliesOn(handle, j)
        /\ UNCHANGED selected

On ==
    \E args \in OnArgs :
        /\ Chained("on", on(handle, args))
        /\ onApplied' = (onApplied \/ on(handle, args).err = "")
        /\ UNCHANGED selected

OnOr ==
    \E args \in OnMoreArgs :
        /\ Chained("onOr", onOr(handle, args))
        /\ UNCHANGED <<selected, onApplied>>

OnAnd ==
    \E args \in OnMoreArgs :
        /\ Chained("onAnd", onAnd(handle, args))
        /\ UNCHANGED <<selected, onApplied>>

Where ==
    \E args \in WhereArgs :
        /\ Chained("where", where(handle, args))
        /\ UNCHANGED <<selected, onApplied>>

Or ==
    \E args \in WhereMoreArgs :
        /\ Chained("or", or(handle, args))
        /\ UNCHANGED <<selected, onApplied>>

And ==
    \E args \in WhereMoreArgs :
        /\ Chained("and", and(handle, args))
        /\ UNCHANGED <<selected, onApplied>>

\* where / or / and with arguments of every shape; r is what the method left behind
Predicate(name, args, r) ==
    /\ Idle
    /\ nChain < maxChain
    /\ handle' = r.b
    /\ outcome' = [name |-> name, err |-> r.err, stmt |-> "", acq |-> 0, rel |-> 0]
    /\ nChain' = nChain + 1
    /\ preds' = [made |-> IF r.err # "" THEN preds.made
                          ELSE IF name = "where" THEN <<[name |-> name, args |-> args]>>
                          ELSE Append(preds.made, [name |-> name, args |-> args]),
                 last |-> [name |-> name, args |-> args]]
    /\ UNCHANGED <<db, maxChain, pool, csv, tables, peer, tx, frames, call, held, nAlter, selected,
                   onApplied>>

WhereAny == \E args \in WhereAnyArgs : Predicate("where", args, where(handle, args))

OrAny == \E args \in WhereAnyArgs : Predicate("or", args, or(handle, args))

AndAny == \E args \in WhereAnyArgs : Predicate("and", args, and(handle, args))

Returning ==
    \E columns \in ReturningArgs :
        /\ Chained("returning", returning(handle, columns))
        /\ UNCHANGED <<selected, onApplied>>

OrderBy ==
    \E columns \in OrderByArgs :
        /\ Chained("orderBy", orderBy(handle, columns))
        /\ UNCHANGED <<selected, onApplied>>

\* orderBy(...columns) with any text as a column name
OrderByAny ==
    \E columns \in OrderByAnyArgs :
        /\ Chained("orderBy", orderBy(handle, columns))
        /\ UNCHANGED <<selected, onApplied>>

Desc ==
    /\ Chained("desc", desc(handle))
    /\ UNCHANGED <<selected, onApplied>>

Limit ==
    \E number \in LimitArgs :
        /\ Chained("limit", limit(handle, number))
        /\ UNCHANGED <<selected, onApplied>>

\* where(...args) is called on the handle while get / insert / upsert awaits the schema or
\* the primary keys: the call in flight is as it was, the handle has the new clause
WhereInFlight ==
    \E args \in WhereArgs :
        LET r == where(handle, args) IN
        /\ ~Idle
        /\ call.name \in {"get", "insert", "upsert"}
        /\ frames[Len(frames)].phase \in {"schema", "pk"}
        /\ handle' = r.b
        /\ handle' # handle
        /\ UNCHANGED <<db, maxChain, pool, csv, preds, tables, peer, tx, frames, call, held, outcome,
                       nChain, selected, onApplied, nAlter>>

(***************************************************************************)
(* Terminal calls: asynchronous; each runs to its next await, and the      *)
(* caller awaits it before making its next call on the handle.             *)
(***************************************************************************)
\* The call c ran to `step`: it is suspended in a decorator invocation awaiting
\* pool.connect(), or it has rejected, or it has resolved.  sel says select() was called
\* on the way.
Ran(c, step, sel) ==
    /\ handle' = step.b
    /\ IF step.to = "await"
       THEN /\ frames' = <<[phase |-> step.phase, client |-> 0]>>
            /\ call' = [c EXCEPT !.stmt = step.stmt]
            /\ outcome' = [name |-> c.name, err |-> "pending", stmt |-> "",
                           acq |-> 0, rel |-> 0]
       ELSE /\ frames' = <<>>
            /\ call' = NoCall
            /\ outcome' = [name |-> c.name, err |-> step.err, stmt |-> step.stmt,
                           acq |-> c.acq, rel |-> c.rel]
    /\ IF step.to = "await" /\ step.phase = "exec"
       THEN nChain' = 0 /\ selected' = FALSE /\ onApplied' = FALSE
       ELSE /\ UNCHANGED <<nChain, onApplied>>
            /\ selected' = (selected \/ sel)

\* a terminal call is made: it runs to its first await
Called(name, values, step) ==
    /\ Idle
    /\ Ran([NoCall EXCEPT !.name = name, !.values = values, !.sql = handle.sql], step, FALSE)
    /\ UNCHANGED <<db, maxChain, pool, csv, preds, tables, peer, tx, held, nAlter>>

\* add / modify / rename / del is called: it runs to its first await
CalledAlter(name, column, step) ==
    /\ Idle
    /\ nAlter < MaxAlter
    /\ Ran([NoCall EXCEPT !.name = name, !.column = column, !.sql = handle.sql], step, FALSE)
    /\ UNCHANGED <<db, maxChain, pool, csv, preds, tables, peer, tx, held, nAlter>>

Get == Called("get", NoValues, get(handle))

Delete == Called("delete", NoValues, delete(handle))

Update == \E entries \in UpdateArgs : Called("update", NoValues, update(handle, entries))

Insert ==
    \E values \in {[isArray |-> FALSE, rows |-> <<r>>] : r \in SomeRows} :
        Called("insert", values, Await("pk", handle, ""))

Upsert ==
    \E values \in {[isArray |-> FALSE, rows |-> <<r>>] : r \in SomeRows} :
        Called("upsert", values, Await("pk", handle, ""))

\* insert(values) with any row object or array of row objects
InsertRows ==
    \E values \in ValuesOver(AllRows) : Called("insert", values, Await("pk", handle, ""))

\* upsert(values) with any row object or array of row objects
UpsertRows ==
    \E values \in ValuesOver(AllRows) : Called("upsert", values, Await("pk", handle, ""))

First == Called("first", NoValues, first(handle))

Last == Called("last", NoValues, Await("pk", handle, ""))

Count == \E column \in CountArgs : Called("count", NoValues, count(handle, column))

Sum == \E column \in SumArgs : Called("sum", NoValues, sum(handle, column))

Avg == \E a \in AvgArgs : Called("avg", NoValues, avg(handle, a[1], a[2]))

Min == \E column \in MinArgs : Called("min", NoValues, min(handle, column))

Max == \E column \in MaxArgs : Called("max", NoValues, max(handle, column))

Add == \E columnData \in AddArgs : CalledAlter("add", columnData, Await("schema", handle, ""))

Modify ==
    \E columnData \in ModifyArgs : CalledAlter("modify", columnData, Await("schema", handle, ""))

Rename ==
    \E a \in RenameArgs :
        CalledAlter("rename", [ColumnData(a[1], "") EXCEPT !.newName = a[2]],
                    rename(handle, a[1], a[2]))

Del == \E column \in DelArgs : CalledAlter("del", ColumnData(column, ""), del(handle, column))

\* add(columnData) / modify(columnData) with every type name and default value
AddAny ==
    \E columnData \in AddAnyArgs : CalledAlter("add", columnData, Await("schema", handle, ""))

ModifyAny ==
    \E columnData \in ModifyAnyArgs :
        CalledAlter("modify", columnData, Await("schema", handle, ""))

\* del(column) of a column the table has at first, and of one it never has
DelAny ==
    \E column \in {"gpa", "nope"} :
        CalledAlter("del", ColumnData(column, ""), del(handle, column))

(***************************************************************************)
(* Calls on the file backend, made one after the other.                    *)
(***************************************************************************)
sqlVars == <<handle, db, frames, call, held, outcome, nChain, maxChain, selected, onApplied,
             nAlter, tx, preds, tables, peer, pool>>

\* CSVDatabase.table(tableName): a new builder over the same file
Table ==
    /\ csv' = [csv EXCEPT !.q = NewBuilder, !.n = 0, !.out = [NoOut EXCEPT !.name = "table"]]
    /\ UNCHANGED sqlVars

\* a call is made on a builder of the table and runs to its first await, whatever is in
\* flight
RaceCallUnawaited(c) ==
    /\ Len(csv.ops) + Len(csv.done) < MaxCalls
    /\ c.name = "insert" =>
           Len(csv.file) + Cardinality({i \in DOMAIN csv.ops : csv.ops[i].name = "insert"})
               <= MaxFileRows
    /\ csv' = [csv EXCEPT !.ops = Append(@, [name |-> c.name, conditions |-> c.conditions,
                                             values |-> c.values, pc |-> 1,
                                             allRows |-> <<>>, columns |-> <<>>])]
    /\ UNCHANGED sqlVars

\* a call is made on a builder of the table and runs to its first await; a caller that
\* awaits each call makes it when no call is in flight
RaceCalled(c) ==
    /\ csv.awaited => csv.ops = <<>>
    /\ Len(csv.ops) + Len(csv.done) < MaxCalls
    /\ c.name = "insert" =>
           Len(csv.file) + Cardinality({i \in DOMAIN csv.ops : csv.ops[i].name = "insert"})
               <= MaxFileRows
    /\ csv' = [csv EXCEPT !.ops = Append(@, [name |-> c.name, conditions |-> c.conditions,
                                             values |-> c.values, pc |-> 1,
                                             allRows |-> <<>>, columns |-> <<>>])]
    /\ UNCHANGED sqlVars

RaceCall == \E c \in RaceCalls : RaceCalled(c)

\* fs.promises.readFile resolves for a call in flight
RaceRead ==
    \E i \in DOMAIN csv.ops :
        /\ csv.ops[i].pc < lastStep(csv.ops[i])
        /\ csv' = [csv EXCEPT !.ops[i] = afterRead(@, csv.file)]
        /\ UNCHANGED sqlVars

\* fs.promises.writeFile / appendFile resolves for a call in flight, and the call resolves
RaceWrite ==
    \E i \in DOMAIN csv.ops :
        LET o == csv.ops[i] IN
        /\ o.pc = lastStep(o)
        /\ csv' = [csv EXCEPT !.file = afterWrite(o, csv.file),
                              !.ops = SubSeq(@, 1, i - 1) \o SubSeq(@, i + 1, Len(@)),
                              !.done = Append(@, [name |-> o.name, conditions |-> o.conditions,
                                                  values |-> o.values])]
        /\ UNCHANGED sqlVars

\* the caller has seen every call resolve and goes on from the file as it is
RaceAgain ==
    /\ csv.ops = <<>>
    /\ Len(csv.done) = MaxCalls
    /\ csv' = [csv EXCEPT !.done = <<>>, !.base = csv.file]
    /\ UNCHANGED sqlVars

\* CSVDatabase.table(tableName) with any name
TableNamed ==
    \E tableName \in CsvTablePaths :
        LET t == csvTable(tableName) IN
        /\ csv' = [csv EXCEPT !.q = IF t.err = "" THEN NewBuilder ELSE @,
                              !.n = IF t.err = "" THEN 0 ELSE @,
                              !.tableName = tableName,
                              !.out = [NoOut EXCEPT !.name = "table", !.err = t.err]]
        /\ UNCHANGED sqlVars

\* a call on the CSVDatabase that creates or removes the file of a table has settled;
\* the file of the table in use is empty once created anew, and when removed
DbCalled(name, tableName, r) ==
    /\ csv' = [csv EXCEPT !.paths = r.paths,
                          !.tableName = tableName,
                          !.file = IF r.err = "" /\ tableName = "tests" THEN <<>> ELSE @,
                          !.out = [NoOut EXCEPT !.name = name, !.err = r.err]]
    /\ UNCHANGED sqlVars

DbCreateTable ==
    \E tableName \in CsvTableNames :
        DbCalled("createTable", tableName, csvCreateTable(csv.paths, tableName))

DbDeleteTable ==
    \E tableName \in CsvTableNames :
        DbCalled("deleteTable", tableName, csvDeleteTable(csv.paths, tableName))

\* a chained call returned the builder, now q
CsvChained(name, q) ==
    /\ csv.n < maxChain
    /\ csv' = [csv EXCEPT !.q = q, !.n = @ + 1, !.out = [NoOut EXCEPT !.name = name]]
    /\ UNCHANGED sqlVars

CsvSelect == \E columns \in CsvSelectArgs : CsvChained("select", csvSelect(csv.q, columns))

CsvWhere == \E condition \in CsvWhereArgs : CsvChained("where", csvWhere(csv.q, condition))

CsvReturning ==
    \E columns \in CsvReturningArgs : CsvChained("returning", csvReturning(csv.q, columns))

CsvOrderBy == \E columns \in CsvOrderByArgs : CsvChained("orderBy", csvOrderBy(csv.q, columns))

CsvDesc == CsvChained("desc", csvDesc(csv.q))

CsvAlter == \E columns \in CsvAlterArgs : CsvChained("alter", csvAlter(csv.q, columns))

\* returning(...columns) with any columns, the call remembered
CsvReturningAny ==
    \E columns \in CsvReturningAnyArgs :
        /\ csv.n < maxChain
        /\ csv' = [csv EXCEPT !.q = csvReturning(@, columns), !.n = @ + 1,
                              !.out = [NoOut EXCEPT !.name = "returning"],
                              !.asked = [called |-> TRUE, columns |-> columns]]
        /\ UNCHANGED sqlVars

\* alter(...columns) with any columns
CsvAlterAny == \E columns \in CsvAlterAnyArgs : CsvChained("alter", csvAlter(csv.q, columns))

\* a terminal call that would hand back a builder as new as table()'s
CsvCalledThenReset(name, values, o) ==
    /\ csv' = [csv EXCEPT !.file = o.content, !.q = NewBuilder,
                          !.out = [name |-> name, err |-> o.err, rows |-> o.rows,
                                   count |-> o.count, values |-> values]]
    /\ UNCHANGED sqlVars

\* a terminal call was awaited: o is its outcome
CsvCalled(name, values, o) ==
    /\ csv' = [csv EXCEPT !.file = o.content,
                          !.out = [name |-> name, err |-> o.err, rows |-> o.rows,
                                   count |-> o.count, values |-> values]]
    /\ UNCHANGED sqlVars

CsvGet == CsvCalled("get", NoValues, CsvOutcome("", csv.file, csvGet(csv.q, csv.file), 0))

CsvDelete == CsvCalled("delete", NoValues, csvDelete(csv.q, csv.file))

CsvInsert ==
    \E values \in CsvInsertArgs :
        /\ Len(csv.file) - 1 + Len(values.rows) <= MaxFileRows
        /\ CsvCalled("insert", values, csvInsert(csv.q, csv.file, values))

CsvUpdate ==
    \E values \in CsvUpdateArgs : CsvCalled("update", values, csvUpdate(csv.q, csv.file, values))

CsvAddColumns == CsvCalled("addColumns", NoValues, addColumns(csv.q, csv.file))

CsvRemoveColumns ==
    /\ csv.q._alter # <<"*">>
    /\ CsvCalled("removeColumns", NoValues, removeColumns(csv.q, csv.file))

CsvCount == CsvCalled("count", NoValues, csvCount(csv.q, csv.file))

CsvFirst == CsvCalled("first", NoValues, csvFirst(csv.q, csv.file))

CsvLast == CsvCalled("last", NoValues, csvLast(csv.q, csv.file))

(***************************************************************************)
(* Model.decorator around each query of the call in flight.                *)
(***************************************************************************)
Top == frames[Len(frames)]

\* pool.connect() resolves with a client that is not checked out
Connect ==
    /\ ~Idle
    /\ Top.client = 0
    /\ \E c \in pool \ held :
        /\ \A d \in pool \ held : c <= d
        /\ frames' = [frames EXCEPT ![Len(frames)].client = c]
        /\ held' = held \cup {c}
    /\ call' = [call EXCEPT !.acq = @ + 1]
    /\ UNCHANGED <<handle, db, maxChain, pool, csv, preds, tables, peer, tx, outcome, nChain, selected, onApplied, nAlter>>

\* pool.connect() rejects: the decorator has no client, and the call rejects
ConnectFail ==
    /\ ~Idle
    /\ Top.client = 0
    /\ Ran(call, Reject("ConnectError", handle), FALSE)
    /\ UNCHANGED <<db, maxChain, pool, csv, preds, tables, peer, tx, held, nAlter>>

\* the call in flight, with the release() calls of a decorator's finally block counted
released(c, before, after) == [c EXCEPT !.rel = @ + Cardinality(before \ after)]

\* client.query rejects: the decorator releases the client and rethrows, the call rejects
QueryReject ==
    /\ ~Idle
    /\ Top.client # 0
    /\ held' = decoratorFinally(held, Top.client, FALSE)
    /\ Ran(released(call, held, held'),
           [Reject("QueryError", handle) EXCEPT
               !.stmt = IF Top.phase = "exec" THEN call.stmt ELSE ""], FALSE)
    /\ UNCHANGED <<db, maxChain, pool, csv, preds, tables, peer, tx, nAlter>>

\* what the call in flight does with the rows of the query it awaited
resume(c, phase, b, catalog) ==
    IF phase = "pk"
    THEN IF c.name = "last" THEN last(b, catalog.pks)
         ELSE Await("schema", b, "")
    ELSE IF phase = "schema"
    THEN IF c.name = "insert" THEN insert(b, c.values, c.pks, catalog.schema)
         ELSE IF c.name = "upsert" THEN upsert(b, c.values, c.pks, catalog.schema)
         ELSE IF c.name = "add" THEN add(b, c.column, catalog.schema)
         ELSE IF c.name = "modify" THEN modify(b, c.column, catalog.schema)
         ELSE IF c.name = "rename"
         THEN renameWithSchema(b, c.column.name, c.column.newName, catalog.schema)
         ELSE IF c.name = "del" THEN delWithSchema(b, c.column.name, catalog.schema)
         ELSE getWithSchema(b, catalog.schema)
    ELSE [Resolve(b) EXCEPT !.stmt = c.stmt]

\* the data type the catalog reports for a column of the type columnData names
dataTypeOf(type) ==
    CASE type = "string" -> "character varying" [] type = "float" -> "numeric"
      [] type \in {"int", "pk"} -> "integer" [] type = "timestamp" -> "timestamp without time zone"
      [] type = "time" -> "time without time zone" [] OTHER -> type

\* the catalog after the server has applied the ALTER TABLE statement of the call c
alterTable(catalog, c) ==
    LET d == c.column
        type == toLowerCase(d.type)
        cols == catalog.schema
        at == CHOOSE i \in 1..Len(cols) : cols[i].column_name = d.name
    IN
    IF c.name = "add"
    THEN [schema |-> Append(cols,
                        [column_name |-> d.name,
                         column_default |-> IF type = "pk" THEN JStr("nextval")
                                            ELSE IF d.defaultValue = JUndef THEN JNull
                                            ELSE d.defaultValue,
                         is_nullable |-> IF type = "pk" \/ d.nullable = JBool("false")
                                         THEN "NO" ELSE "YES",
                         data_type |-> dataTypeOf(type)]),
          pks |-> IF type = "pk"
                  THEN Append(catalog.pks, [column_name |-> d.name, data_type |-> "integer"])
                  ELSE catalog.pks]
    ELSE IF c.name = "modify"
    THEN [catalog EXCEPT
            !.schema[at].data_type = dataTypeOf(type),
            !.schema[at].column_default = IF d.defaultValue = JUndef THEN @ ELSE d.defaultValue,
            !.schema[at].is_nullable = IF d.nullable = JBool("false") THEN "NO" ELSE @]
    ELSE IF c.name = "rename"
    THEN [schema |-> [i \in 1..Len(cols) |->
                        IF i = at THEN [cols[i] EXCEPT !.column_name = d.newName] ELSE cols[i]],
          pks |-> [i \in 1..Len(catalog.pks) |->
                        IF catalog.pks[i].column_name = d.name
                        THEN [catalog.pks[i] EXCEPT !.column_name = d.newName]
                        ELSE catalog.pks[i]]]
    ELSE IF c.name = "del"
    THEN [schema |-> withoutColumns(cols, {d.name}),
          pks |-> withoutColumns(catalog.pks, {d.name})]
    ELSE catalog

\* client.query resolves: the decorator releases the client, the call goes on
QueryResolve ==
    /\ ~Idle
    /\ Top.client # 0
    /\ held' = decoratorFinally(held, Top.client, TRUE)
    /\ LET c == released(IF Top.phase = "pk" THEN [call EXCEPT !.pks = db.pks] ELSE call,
                         held, held')
       IN Ran(c, resume(c, Top.phase, handle, db),
              c.name = "last" /\ Top.phase = "pk" /\ Len(db.pks) = 0)
    /\ IF Top.phase = "exec" /\ call.name \in {"add", "modify", "rename", "del"}
       THEN db' = alterTable(db, call) /\ nAlter' = nAlter + 1
       ELSE UNCHANGED <<db, nAlter>>
    /\ UNCHANGED <<maxChain, pool, csv, preds, tables, peer, tx>>

(***************************************************************************)
(* Calls on the Model: table, createTable, deleteTable.                    *)
(***************************************************************************)
\* Model.table(tableName) returns a new handle or throws
ModelTable ==
    \E tableName \in TableNames :
        LET r == table(handle, tableName) IN
        /\ Idle
        /\ handle' = r.b
        /\ outcome' = [name |-> "table", err |-> r.err, stmt |-> "", acq |-> 0, rel |-> 0]
        /\ call' = [NoCall EXCEPT !.table = tableName]
        /\ IF r.err = "" THEN nChain' = 0 /\ selected' = FALSE /\ onApplied' = FALSE
           ELSE UNCHANGED <<nChain, selected, onApplied>>
        /\ UNCHANGED <<db, frames, held, maxChain, pool, csv, preds, tables, peer, tx, nAlter>>

\* createTable / deleteTable is called: its decorator awaits pool.connect()
ModelCalled(name, tableName) ==
    /\ Idle
    /\ frames' = <<[phase |-> name, client |-> 0]>>
    /\ call' = [NoCall EXCEPT !.name = name, !.table = tableName]
    /\ outcome' = [name |-> name, err |-> "pending", stmt |-> "", acq |-> 0, rel |-> 0]
    /\ UNCHANGED <<handle, db, held, nChain, maxChain, pool, csv, preds, tables, peer, tx, selected,
                   onApplied, nAlter>>

CreateTable == \E tableName \in TableNames : ModelCalled("createTable", tableName)

DeleteTable == \E tableName \in TableNames : ModelCalled("deleteTable", tableName)

\* the call c on the Model has settled: it rejected with err, or resolved when err is ""
ModelSettled(c, err, stmt) ==
    /\ frames' = <<>>
    /\ call' = [NoCall EXCEPT !.table = c.table]
    /\ outcome' = [name |-> c.name, err |-> err, stmt |-> stmt, acq |-> c.acq, rel |-> c.rel]
    /\ UNCHANGED <<handle, db, nChain, maxChain, pool, csv, preds, peer, tx, selected, onApplied,
                   nAlter>>

\* the clients checked out once the finally blocks of the decorators around the call
\* have run, from frame i outwards
RECURSIVE unwound(_, _)
unwound(heldClients, i) ==
    IF i = 0 THEN heldClients
    ELSE unwound(IF frames[i].client = 0 THEN heldClients
                 ELSE decoratorFinally(heldClients, frames[i].client, FALSE), i - 1)

\* pool.connect() resolves for the decorator of createTable / deleteTable, whose function
\* starts by calling exists(), or for the decorator of exists(), whose function sends the
\* existence query
ModelConnect ==
    /\ ~Idle
    /\ call.name \in {"createTable", "deleteTable"}
    /\ Top.client = 0
    /\ \E c \in pool \ held :
        /\ \A d \in pool \ held : c <= d
        /\ held' = held \cup {c}
        /\ frames' = IF Top.phase = "exists"
                     THEN [frames EXCEPT ![Len(frames)].client = c]
                     ELSE Append([frames EXCEPT ![Len(frames)].client = c],
                                 [phase |-> "exists", client |-> 0])
    /\ call' = [call EXCEPT !.acq = @ + 1]
    /\ UNCHANGED <<handle, db, maxChain, pool, csv, preds, tables, peer, tx, outcome, nChain, selected,
                   onApplied, nAlter>>

\* pool.connect() rejects: the error goes up through the decorators, each releasing the
\* client it holds
ModelConnectFail ==
    /\ ~Idle
    /\ call.name \in {"createTable", "deleteTable"}
    /\ Top.client = 0
    /\ held' = unwound(held, Len(frames))
    /\ ModelSettled(released(call, held, held'), "ConnectError", "")
    /\ UNCHANGED tables

\* the existence query rejects: exists() and then the call reject
ExistsReject ==
    /\ ~Idle
    /\ Top.phase = "exists"
    /\ Top.client # 0
    /\ held' = unwound(held, Len(frames))
    /\ ModelSettled(released(call, held, held'), "QueryError", "")
    /\ UNCHANGED tables

\* the existence query resolves: the decorator of exists() releases its client, and the
\* function of createTable / deleteTable goes on to throw or to send its statement
ExistsResolve ==
    /\ ~Idle
    /\ Top.phase = "exists"
    /\ Top.client # 0
    /\ LET answer == exists(call.table, tables)
           step == IF call.name = "createTable" THEN createTable(handle, call.table, answer)
                   ELSE deleteTable(handle, call.table, answer)
           inner == decoratorFinally(held, Top.client, TRUE)
       IN IF step.to = "await"
          THEN /\ held' = inner
               /\ frames' = <<[phase |-> step.phase, client |-> frames[1].client]>>
               /\ call' = [released(call, held, held') EXCEPT !.stmt = step.stmt]
               /\ UNCHANGED <<handle, db, nChain, maxChain, pool, csv, preds, peer, tx, selected,
                              onApplied, nAlter, outcome>>
          ELSE /\ held' = unwound(inner, Len(frames) - 1)
               /\ ModelSettled(released(call, held, held'), step.err, "")
    /\ UNCHANGED tables

\* CREATE TABLE / DROP TABLE resolves: the server has the table, or has it no longer
DdlResolve ==
    /\ ~Idle
    /\ Top.phase = "ddl"
    /\ held' = decoratorFinally(held, Top.client, TRUE)
    /\ tables' = IF call.name = "createTable" THEN tables \cup {call.table}
                 ELSE tables \ {call.table}
    /\ ModelSettled(released(call, held, held'), "", call.stmt)

\* CREATE TABLE / DROP TABLE rejects
DdlReject ==
    /\ ~Idle
    /\ Top.phase = "ddl"
    /\ held' = decoratorFinally(held, Top.client, FALSE)
    /\ ModelSettled(released(call, held, held'), "QueryError", call.stmt)
    /\ UNCHANGED tables

(***************************************************************************)
(* A second handle of the same Model, used while the first is in use.      *)
(***************************************************************************)
\* what the steps of the second handle leave alone: the first handle and its call
firstHandle == <<handle, frames, call, outcome, nChain, selected, onApplied>>

\* Model.table(TableName) is called again: another TableQueryBuilder, with its own sql
PeerTable ==
    /\ peer.phase = "idle"
    /\ peer' = [NewPeer EXCEPT !.out.name = "table"]
    /\ UNCHANGED <<firstHandle, db, held, maxChain, pool, csv, preds, tables, tx, nAlter>>

\* a chained call on the second handle that would write the slots of the first handle
\* too, as if the two shared one sql object
PeerChainedSharingSql(name, r) ==
    /\ peer.phase = "idle"
    /\ peer' = [peer EXCEPT !.b = r.b, !.out = [name |-> name, err |-> r.err, stmt |-> ""]]
    /\ handle' = [handle EXCEPT !.sql = r.b.sql]
    /\ UNCHANGED <<frames, call, outcome, nChain, selected, onApplied, db, held, maxChain, pool, csv,
                   preds, tables, tx, nAlter>>

\* a chained call on the second handle: it writes this.sql and this._select of that
\* handle
PeerChained(name, r) ==
    /\ peer.phase = "idle"
    /\ peer' = [peer EXCEPT !.b = r.b, !.out = [name |-> name, err |-> r.err, stmt |-> ""]]
    /\ UNCHANGED <<firstHandle, db, held, maxChain, pool, csv, preds, tables, tx, nAlter>>

PeerSelect == \E columns \in SelectArgs : PeerChained("select", select(peer.b, columns))

PeerWhere == \E args \in WhereArgs : PeerChained("where", where(peer.b, args))

\* the call on the second handle went on: it awaits a query, or it has settled
PeerRan(name, step, heldClients) ==
    /\ peer' = IF step.to = "await"
               THEN [b |-> step.b, phase |-> step.phase, client |-> 0, stmt |-> step.stmt,
                     out |-> [name |-> name, err |-> "pending", stmt |-> ""]]
               ELSE [b |-> step.b, phase |-> "idle", client |-> 0, stmt |-> "",
                     out |-> [name |-> name, err |-> step.err, stmt |-> step.stmt]]
    /\ held' = heldClients
    /\ UNCHANGED <<firstHandle, db, maxChain, pool, csv, preds, tables, tx, nAlter>>

\* get() / delete() on the second handle, to the first await
PeerGet == peer.phase = "idle" /\ PeerRan("get", get(peer.b), held)

PeerDelete == peer.phase = "idle" /\ PeerRan("delete", delete(peer.b), held)

\* pool.connect() resolves for the decorator of the second handle's query
PeerConnect ==
    /\ peer.phase # "idle"
    /\ peer.client = 0
    /\ \E c \in pool \ held :
        /\ \A d \in pool \ held : c <= d
        /\ peer' = [peer EXCEPT !.client = c]
        /\ held' = held \cup {c}
    /\ UNCHANGED <<firstHandle, db, maxChain, pool, csv, preds, tables, tx, nAlter>>

\* pool.connect() or the query of the second handle rejects
PeerReject ==
    /\ peer.phase # "idle"
    /\ PeerRan(peer.out.name,
               [Reject(IF peer.client = 0 THEN "ConnectError" ELSE "QueryError", peer.b)
                   EXCEPT !.stmt = IF peer.phase = "exec" /\ peer.client # 0 THEN peer.stmt
                                   ELSE ""],
               IF peer.client = 0 THEN held ELSE decoratorFinally(held, peer.client, FALSE))

\* the query of the second handle resolves
PeerResolve ==
    /\ peer.phase # "idle"
    /\ peer.client # 0
    /\ PeerRan(peer.out.name,
               IF peer.phase = "schema" THEN getWithSchema(peer.b, db.schema)
               ELSE [Resolve(peer.b) EXCEPT !.stmt = peer.stmt],
               decoratorFinally(held, peer.client, TRUE))

\* begin(): a client is taken from the pool and held, BEGIN is sent on it
Begin ==
    /\ Idle
    /\ tx = 0
    /\ \E c \in pool \ held :
        /\ \A d \in pool \ held : c <= d
        /\ tx' = c
        /\ held' = held \cup {c}
    /\ outcome' = [name |-> "begin", err |-> "", stmt |-> "BEGIN", acq |-> 0, rel |-> 0]
    /\ UNCHANGED <<handle, db, frames, call, nChain, maxChain, pool, csv, preds, tables, peer, selected, onApplied, nAlter>>

\* commit() / rollback(): the statement is sent on the held client, which is released
endTransaction(name, stmt) ==
    /\ Idle
    /\ tx # 0
    /\ held' = held \ {tx}
    /\ tx' = 0
    /\ outcome' = [name |-> name, err |-> "", stmt |-> stmt, acq |-> 0, rel |-> 0]
    /\ UNCHANGED <<handle, db, frames, call, nChain, maxChain, pool, csv, preds, tables, peer, selected, onApplied, nAlter>>

Commit == endTransaction("commit", "COMMIT")

Rollback == endTransaction("rollback", "ROLLBACK")

Next ==
    \/ Select \/ InnerJoin \/ LeftJoin \/ RightJoin \/ On \/ OnOr \/ OnAnd
    \/ Where \/ Or \/ And \/ Returning \/ OrderBy \/ Desc \/ Limit
    \/ Get \/ Delete \/ Update \/ Insert \/ Upsert \/ First \/ Last
    \/ Count \/ Sum \/ Avg \/ Min \/ Max
    \/ Add \/ Modify \/ Rename \/ Del
    \/ Connect \/ ConnectFail \/ QueryReject \/ QueryResolve

Spec == Init /\ [][Next]_vars

\* longer chains of calls, with get() and delete() as the terminal calls
NextChain ==
    \/ Select \/ InnerJoin \/ LeftJoin \/ RightJoin \/ On \/ OnOr \/ OnAnd
    \/ Where \/ Or \/ And \/ Returning \/ OrderBy \/ Desc \/ Limit
    \/ Get \/ Delete
    \/ Connect \/ ConnectFail \/ QueryReject \/ QueryResolve

SpecChain == InitChain /\ [][NextChain]_vars

\* insert / upsert of every row shape into every table
NextInsert ==
    \/ Returning \/ InsertRows \/ UpsertRows
    \/ Connect \/ ConnectFail \/ QueryReject \/ QueryResolve

SpecInsert == InitInsert /\ [][NextInsert]_vars

\* builder calls inside and outside a transaction
NextTx ==
    \/ Begin \/ Commit \/ Rollback
    \/ Where \/ Returning \/ Delete \/ Insert
    \/ Connect \/ ConnectFail \/ QueryReject \/ QueryResolve

SpecTx == InitTx /\ [][NextTx]_vars

\* the DDL calls, with every type name, on a table with columns of each family
NextDDL ==
    \/ AddAny \/ ModifyAny \/ Rename \/ DelAny
    \/ Connect \/ ConnectFail \/ QueryReject \/ QueryResolve

SpecDDL == InitDDL /\ [][NextDDL]_vars

\* the file backend, its calls made one after the other: those that write the file
NextCsv ==
    \/ Table \/ CsvWhere \/ CsvReturning \/ CsvAlter
    \/ CsvInsert \/ CsvUpdate \/ CsvDelete \/ CsvAddColumns \/ CsvRemoveColumns

SpecCsv == InitCsv /\ [][NextCsv]_vars

\* the file backend: rows are inserted, and read under longer chains of calls
NextCsvRead ==
    \/ Table \/ CsvSelect \/ CsvWhere \/ CsvOrderBy \/ CsvDesc
    \/ CsvInsert \/ CsvGet \/ CsvCount \/ CsvFirst \/ CsvLast

SpecCsvRead == InitCsvRead /\ [][NextCsvRead]_vars

\* the calls on the Model itself
NextModel ==
    \/ ModelTable \/ CreateTable \/ DeleteTable
    \/ ModelConnect \/ ModelConnectFail \/ ExistsResolve \/ ExistsReject
    \/ DdlResolve \/ DdlReject

SpecModel == InitModel /\ [][NextModel]_vars

\* the calls on the Model with a pool of any capacity: the pool hands out a client when
\* it has one, and the server answers every query
NextPool ==
    \/ ModelTable \/ CreateTable \/ DeleteTable
    \/ ModelConnect \/ ExistsResolve \/ ExistsReject
    \/ DdlResolve \/ DdlReject

SpecPool ==
    /\ InitPool /\ [][NextPool]_vars
    /\ WF_vars(ModelConnect)
    /\ WF_vars(ExistsResolve \/ ExistsReject)
    /\ WF_vars(DdlResolve \/ DdlReject)

\* two handles of one Model, the calls on them in any order
NextHandles ==
    \/ Select \/ Where \/ Get \/ Delete
    \/ Connect \/ ConnectFail \/ QueryReject \/ QueryResolve
    \/ PeerTable \/ PeerSelect \/ PeerWhere \/ PeerGet \/ PeerDelete
    \/ PeerConnect \/ PeerReject \/ PeerResolve

SpecHandles == InitHandles /\ [][NextHandles]_vars

\* where / and / or chained on one handle, with arguments of every shape
NextWhere == WhereAny \/ OrAny \/ AndAny

SpecWhere == InitChain /\ [][NextWhere]_vars

\* the file backend: calls on the table's file, in flight together or one after the other
NextCsvRace == RaceCall \/ RaceRead \/ RaceWrite \/ RaceAgain

SpecCsvRace == InitCsvRace /\ [][NextCsvRace]_vars

\* the file backend: rows are inserted, then updated on one builder, with or without
\* returning
NextCsvUpdate == CsvWhere \/ CsvReturningAny \/ CsvInsert \/ CsvUpdate

SpecCsvUpdate == InitCsv /\ [][NextCsvUpdate]_vars

\* the file backend: columns are added to and removed from a table with rows
NextCsvColumns == Table \/ CsvAlterAny \/ CsvInsert \/ CsvAddColumns \/ CsvRemoveColumns

SpecCsvColumns == InitCsv /\ [][NextCsvColumns]_vars

\* rows are read in an order the caller names
NextNames ==
    \/ Select \/ OrderByAny \/ Get
    \/ Connect \/ ConnectFail \/ QueryReject \/ QueryResolve

SpecNames == InitChain /\ [][NextNames]_vars

\* calls chained on the handle before a call and while it is in flight
NextInFlight ==
    \/ Select \/ Where \/ Get \/ WhereInFlight
    \/ Connect \/ ConnectFail \/ QueryReject \/ QueryResolve

SpecInFlight == InitChain /\ [][NextInFlight]_vars

\* the backend in use is the file backend
UsesFiles == csv.file # <<>>

\* one backend or the other: clauses are chained and the calls that count rows or pick one
\* row are made
InitAggregates ==
    /\ FreshSql
    /\ db = [schema |-> <<nameFieldMock, jobFieldMock>>, pks |-> <<>>]
    /\ maxChain = MaxCsvChainFew
    /\ csv \in {CsvStart(<<>>), CsvStart(<<<<"first_name", "salary">>>>)}

NextAggregates ==
    \/ ~UsesFiles /\ (Where \/ OrderBy \/ Limit \/ Count \/ Sum \/ Avg \/ Min \/ Max \/ First)
    \/ ~UsesFiles /\ (Connect \/ ConnectFail \/ QueryReject \/ QueryResolve)
    \/ UsesFiles /\ (Table \/ CsvSelect \/ CsvWhere \/ CsvOrderBy \/ CsvDesc)
    \/ UsesFiles /\ (CsvInsert \/ CsvCount \/ CsvFirst \/ CsvLast)

SpecAggregates == InitAggregates /\ [][NextAggregates]_vars

\* the file backend: tables are named, created and removed
NextCsvFiles == TableNamed \/ DbCreateTable \/ DbDeleteTable

SpecCsvFiles == InitCsv /\ [][NextCsvFiles]_vars

\* the file backend: every chained and every terminal call of one builder
NextCsvAll ==
    \/ Table \/ CsvSelect \/ CsvWhere \/ CsvReturning \/ CsvOrderBy \/ CsvDesc \/ CsvAlter
    \/ CsvGet \/ CsvInsert \/ CsvUpdate \/ CsvDelete \/ CsvAddColumns \/ CsvRemoveColumns
    \/ CsvCount \/ CsvFirst \/ CsvLast

SpecCsvAll == InitCsv /\ [][NextCsvAll]_vars

(***************************************************************************)
(* Properties.                                                             *)
(***************************************************************************)
TerminalCalls ==
    {"get", "insert", "upsert", "update", "delete", "add", "modify", "rename", "del",
     "count", "sum", "avg", "min", "max", "first", "last"}

\* the clients of the decorator invocations in flight
frameClients == {frames[i].client : i \in DOMAIN frames} \ {0}

\* a chained call named one of `names` is being made in this step
ChainedStep(names) == Idle /\ nChain' = nChain + 1 /\ outcome'.name \in names

\* the awaited query of the call in flight resolves in this step
ResolveStep(names, phase) ==
    /\ ~Idle
    /\ call.name \in names
    /\ Top.phase = phase
    /\ Top.client # 0
    /\ held' # held
    /\ outcome'.err # "QueryError"

\* C1: every client a decorator invocation obtained is released exactly once, when the
\* wrapped function has settled (resolved or thrown): the clients checked out are those
\* of the invocations still awaiting their function, a call in flight has released all
\* but those, and once the call has completed it has released as many clients as it
\* obtained and none is checked out.
C1_ReleasedExactlyOnce ==
    /\ held = frameClients \cup ({tx} \ {0})
    /\ ~Idle => call.acq = call.rel + Cardinality(frameClients)
    /\ Idle => outcome.acq = outcome.rel

\* a call whose third query threw has completed, three clients obtained and released
C1_Witness ==
    /\ Idle
    /\ outcome.err = "QueryError"
    /\ outcome.acq = 3
    /\ outcome.rel = 3
    /\ held = {}

\* C2: while a transaction is open (begin() completed, no commit() / rollback() yet)
\* every statement of a builder call runs on the client begin() holds and no other
\* client is taken from the pool.
C2_OneConnectionInTransaction ==
    tx # 0 => (held = {tx} /\ frameClients \subseteq {tx})

\* C3: after any terminal call has completed, resolved or rejected, every clause slot
\* of the handle is empty.
C3_SlotsEmptyAfterTerminalCall ==
    (Idle /\ outcome.name \in TerminalCalls) => handle.sql = EmptySql

\* C4: and(...) / or(...) called while the WHERE slot is empty throw, and leave the
\* handle as it was.
C4_AndOrNeedWhere ==
    [][(ChainedStep({"and", "or"}) /\ handle.sql.where = "")
          => (outcome'.err \in {"andBeforeWhere", "orBeforeWhere"} /\ handle' = handle)]_vars

\* and() threw on a handle that has other clauses but no WHERE
C4_Witness ==
    /\ outcome.name = "and"
    /\ outcome.err = "andBeforeWhere"
    /\ handle.sql.where = ""
    /\ handle.sql.select # ""

\* C5 as stated: onAnd(...) / onOr(...) throw, leaving the handle as it was, whenever no
\* on(...) has been applied to the current join, the latest innerJoin / leftJoin /
\* rightJoin having been called without conditions.
C5_OnAndOrNeedOnOfCurrentJoin ==
    [][(ChainedStep({"onAnd", "onOr"}) /\ handle.sql.join # "" /\ ~onApplied)
          => (outcome'.err \in {"onAndBeforeOn", "onOrBeforeOn"} /\ handle' = handle)]_vars

\* C5 amended: onAnd(...) / onOr(...) throw, leaving the handle as it was, whenever the
\* ON slot is empty, whatever join was called.
C5_OnAndOrNeedOnSlot ==
    [][(ChainedStep({"onAnd", "onOr"}) /\ handle.sql.on = "")
          => (outcome'.err \in {"onAndBeforeOn", "onOrBeforeOn"} /\ handle' = handle)]_vars

\* onOr() threw after a left join called without conditions
C5_Witness ==
    /\ outcome.name = "onOr"
    /\ outcome.err = "onOrBeforeOn"
    /\ handle.sql.join = "LEFT JOIN " \o Ident(OtherTable)
    /\ handle.sql.on = ""

\* C6: get() called when select() has not been called since the handle was made or its
\* slots were last cleared rejects with the columns-not-selected error at once: no
\* client is obtained and no query is sent.
C6_GetNeedsSelect ==
    [][(Idle /\ ~selected /\ outcome'.name = "get" /\ outcome' # outcome)
          => /\ frames' = <<>>
             /\ outcome'.err = "ColumnsNotSelected"
             /\ outcome'.acq = 0
             /\ outcome'.stmt = ""
             /\ held' = held]_vars

\* get() rejected on a handle whose slots a statement had cleared and that got a WHERE
\* but no select() since
C6_Witness ==
    /\ Idle
    /\ outcome.name = "get"
    /\ outcome.err = "ColumnsNotSelected"
    /\ outcome.acq = 0
    /\ handle.sql.where # ""
    /\ handle.selectCols # <<>>

\* a column selected by name that the catalog does not have
selectsAbsentColumn ==
    /\ handle.selectCols # <<"*">>
    /\ \E i \in 1..Len(handle.selectCols) :
          handle.selectCols[i] \notin Range(columnNames(db.schema))

\* C7: when get() has fetched the schema, it rejects with the unknown-column error and
\* sends no SELECT if a column selected by name is absent from the schema and no join is
\* active; if a join is active or all columns are selected it sends the SELECT.
C7_GetChecksSelectedColumns ==
    [][ResolveStep({"get"}, "schema")
          => IF selectsAbsentColumn /\ handle.sql.join = ""
             THEN frames' = <<>> /\ outcome'.err = "UnknownColumn" /\ outcome'.stmt = ""
             ELSE /\ frames' # <<>>
                  /\ frames'[1].phase = "exec"
                  /\ SubSeq(call'.stmt, 1, 6) = "SELECT"]_vars

\* get() rejected for a column that is not in the table, no statement sent
C7_Witness ==
    /\ Idle
    /\ outcome.name = "get"
    /\ outcome.err = "UnknownColumn"
    /\ outcome.stmt = ""
    /\ handle.selectCols = <<"bogus">>

\* a row lacks, or has a falsy value for, a column that is NOT NULL and has no default
lacksMandatory(row, schemaData) ==
    \E i \in 1..Len(schemaData) :
        /\ schemaData[i].is_nullable = "NO"
        /\ schemaData[i].column_default = JNull
        /\ ~Truthy(Prop(row, schemaData[i].column_name))

\* C8: insert of a row that lacks (or has a falsy value for) a column that is NOT NULL
\* and has no default rejects with the missing-mandatory-column error (unless a key of
\* a row is no column of the table) and sends no INSERT, primary-key columns included.
C8_MandatoryColumnsEnforced ==
    [][(/\ ResolveStep({"insert"}, "schema")
        /\ \E i \in 1..Len(call.values.rows) : lacksMandatory(call.values.rows[i], db.schema))
          => /\ frames' = <<>>
             /\ outcome'.stmt = ""
             /\ \/ outcome'.err = "MissingMandatoryColumn"
                \/ \E i \in 1..Len(call.values.rows) :
                      ~(DOMAIN call.values.rows[i] \subseteq Range(columnNames(db.schema)))]_vars

\* what insert / upsert named `name` does with `values` once it has the catalog
insertStep(name, b, values, catalog) ==
    IF name = "insert" THEN insert(b, values, catalog.pks, catalog.schema)
    ELSE upsert(b, values, catalog.pks, catalog.schema)

\* C9: insert / upsert of a row object R and of the array [R] reject with the same error
\* or send the same statement, and the primary-key columns are left out of the column
\* list only when no row has a primary-key value.
C9_RowAndOneElementArrayAgree ==
    (~Idle /\ call.name \in {"insert", "upsert"} /\ Top.phase = "schema"
        /\ Len(call.values.rows) = 1)
    => LET one == insertStep(call.name, handle, [isArray |-> FALSE, rows |-> call.values.rows], db)
           arr == insertStep(call.name, handle, [isArray |-> TRUE, rows |-> call.values.rows], db)
           used == Range(columnNames(insertSchema(call.values, db.pks, db.schema)))
       IN /\ one.to = arr.to
          /\ one.err = arr.err
          /\ one.stmt = arr.stmt
          /\ \A i \in 1..Len(db.pks) :
                db.pks[i].column_name \notin used
                    => db.pks[i].column_name \notin DOMAIN call.values.rows[1]

\* the value the row has for the column if it has that key, else the column's default
ownOrDefault(row, col) ==
    IF col.column_name \in DOMAIN row THEN row[col.column_name] ELSE col.column_default

\* C10: the INSERT statement sent writes, for each row and each column of its column
\* list, the row's own value if the row has that key (0, "" and false included) and the
\* column's default if and only if the row omits the key.
C10_OwnValueOrDefaultWritten ==
    (~Idle /\ call.name = "insert" /\ Top.phase = "exec")
    => LET schemaData == insertSchema(call.values, call.pks, db.schema)
           rows == call.values.rows
           expected ==
               "INSERT INTO " \o Ident(TableName) \o " ("
                   \o IdentList(columnNames(schemaData)) \o ") VALUES "
                   \o StrList([i \in 1..Len(rows) |->
                        "(" \o LiteralList([j \in 1..Len(schemaData) |->
                                   ownOrDefault(rows[i], schemaData[j])]) \o ")"])
       IN /\ Len(call.stmt) >= Len(expected)
          /\ SubSeq(call.stmt, 1, Len(expected)) = expected

\* C12: on a table without primary key, upsert(values) sends exactly the statement
\* insert(values) would send from the same handle (same VALUES, same RETURNING, no
\* ON CONFLICT clause), and rejects exactly when insert(values) rejects, with its error.
C12_UpsertWithoutKeyIsInsert ==
    [][ResolveStep({"upsert"}, "schema") /\ Len(call.pks) = 0 =>
          LET i == insert(handle, call.values, call.pks, db.schema) IN
          IF i.to = "reject"
          THEN Idle' /\ outcome'.name = "upsert" /\ outcome'.err = i.err
          ELSE /\ ~Idle' /\ frames'[Len(frames')].phase = "exec"
               /\ call'.stmt = i.stmt
               /\ handle' = i.b]_vars

\* an upsert into the table without primary key has sent its INSERT, RETURNING included
C12_Witness ==
    /\ call.values.rows = <<[name |-> JStr("Bob"), job |-> JStr("rat")]>>
    /\ ~Idle /\ call.name = "upsert" /\ Top.phase = "exec" /\ Len(call.pks) = 0
    /\ call.stmt = "INSERT INTO tests (name,job) VALUES ('Bob','rat') RETURNING name"

\* the call in flight reads the schema and rejects: it ends without a statement, and the
\* server's catalog is as it was
RejectsWithoutAlter ==
    /\ Idle'
    /\ outcome'.err \notin {"", "pending"}
    /\ outcome'.stmt = ""
    /\ db' = db /\ nAlter' = nAlter

\* C13: against the schema read during the call, add rejects when a column of the name
\* exists, and modify, rename(old, new) and del reject when the (old) column does not;
\* a rejecting call executes no ALTER TABLE statement.
C13_ExistencePreconditions ==
    [][/\ ResolveStep({"add"}, "schema")
          /\ call.column.name \in Range(columnNames(db.schema)) => RejectsWithoutAlter
       /\ ResolveStep({"modify", "rename", "del"}, "schema")
          /\ call.column.name \notin Range(columnNames(db.schema)) => RejectsWithoutAlter]_vars

\* an add of a column the table has was rejected for that reason, nothing altered
C13_Witness ==
    /\ Idle /\ outcome.name = "add" /\ outcome.err = "DuplicateColumn"
    /\ outcome.stmt = "" /\ nAlter = 0

\* C14: modify of an existing column to int or float is accepted exactly when the column's
\* current type is in the numeric family, to date, time or timestamp exactly when it is in
\* the date/time family; a conversion across families rejects with the non-convertible-type
\* error and executes no ALTER TABLE.
C14_ModifyWithinFamily ==
    [][/\ ResolveStep({"modify"}, "schema")
       /\ alter(call.column, db.schema).err = ""
       /\ call.column.name \in Range(columnNames(db.schema))
       /\ toLowerCase(call.column.type) \in {"int", "float", "date", "time", "timestamp"}
       => LET target == toLowerCase(call.column.type)
              current == alter(call.column, db.schema).initialDataType
              family == IF target \in {"int", "float"} THEN numericTypes ELSE dateTypes
          IN IF current \in family
             THEN ~Idle' /\ frames'[Len(frames')].phase = "exec"
             ELSE /\ RejectsWithoutAlter
                  /\ outcome'.err \in {"NonNumericToNumeric", "NonDateToDate"}]_vars

\* C15: add with type pk (in any letter case) rejects whenever columnData carries a
\* defaultValue other than undefined, executing no ALTER TABLE; the statement of an
\* accepted pk add is the one sent without defaultValue, so it has no DEFAULT clause.
C15_SerialKeyRejectsDefault ==
    [][ResolveStep({"add"}, "schema") /\ toLowerCase(call.column.type) = "pk"
       => /\ call.column.defaultValue # JUndef => RejectsWithoutAlter
          /\ ~Idle' => call'.stmt =
                add(handle, [call.column EXCEPT !.defaultValue = JUndef], db.schema).stmt]_vars

\* C16: last() on a table with primary keys sends the query ordered by the whole key tuple,
\* descending, limited to one row; on a table without primary key it reads the full,
\* unfiltered row set of the table, whatever where / order / limit clauses were chained on
\* the handle before.
C16_LastReadsWholeTable ==
    ~Idle /\ call.name = "last" /\ Top.phase = "exec" =>
        call.stmt = IF Len(call.pks) > 0
                    THEN "SELECT * FROM " \o Ident(TableName) \o " ORDER BY ("
                             \o StrList(columnNames(call.pks)) \o ") DESC LIMIT 1"
                    ELSE "SELECT * FROM " \o Ident(TableName) \o ";"

\* a call of the file backend's insert / update / delete was awaited in this step
CsvStep(name) == csv' # csv /\ csv'.out.name = name

\* C19: insert on the file backend, given a row with a key that is no column of the
\* header, rejects with the unknown-column error and leaves the file as it was.
C19_InsertRejectsUnknownKey ==
    [][/\ CsvStep("insert")
       /\ \E i \in 1..Len(csv'.out.values.rows) :
             ~(DOMAIN csv'.out.values.rows[i] \subseteq Range(getColumns(csv.file)))
       => csv'.out.err = "UnknownColumn" /\ csv'.file = csv.file]_vars

\* C11 (file backend): after insert(R) of one row has resolved, get() of all columns,
\* filtered to the rows whose first_name is R's, returns a row whose every field equals
\* the field of R.
C11_InsertedRowReadBack ==
    [][/\ CsvStep("insert")
       /\ csv'.out.err = "" /\ ~csv'.out.values.isArray
       /\ "first_name" \in DOMAIN csv'.out.values.rows[1]
       => LET R == csv'.out.values.rows[1]
              got == csvGet(csvWhere(csvSelect(NewBuilder, <<>>),
                                     [col |-> "first_name", val |-> R["first_name"]]),
                            csv'.file)
          IN \E i \in 1..Len(got) : \A k \in DOMAIN R : Prop(got[i], k) = R[k]]_vars

\* C20: on the file backend, with calls made one after the other, update changes exactly
\* the rows that meet every where() predicate (every row when there is none), setting only
\* the given columns, and delete removes exactly those rows; the header and the other rows
\* stay as they were, in their order; an update naming a column the header lacks rejects
\* and leaves the file unchanged.
C20_UpdateDeleteExactRows ==
    [][LET before == readTable(csv.file)
           after == readTable(csv'.file)
           conditions == csv.q._where
           values == csv'.out.values
       IN /\ CsvStep("update") /\ csv'.out.err = "" =>
                /\ getColumns(csv'.file) = getColumns(csv.file)
                /\ Len(after) = Len(before)
                /\ \A i \in 1..Len(before) :
                      after[i] = IF every(conditions, before[i])
                                 THEN spread(before[i], values.rows[1]) ELSE before[i]
          /\ CsvStep("update") /\ values # NoValues
                /\ ~(DOMAIN values.rows[1] \subseteq Range(getColumns(csv.file))) =>
                csv'.out.err # "" /\ csv'.file = csv.file
          /\ CsvStep("delete") =>
                /\ csv'.out.err = ""
                /\ getColumns(csv'.file) = getColumns(csv.file)
                /\ after = filter(before, conditions, FALSE)]_vars

\* a < b for two numbers written in digits, without leading zeros
NumLess(a, b) == Len(a) < Len(b) \/ (Len(a) = Len(b) /\ StrLess(a, b))

\* every row of the table has a salary written in digits
SalariesAreNumbers ==
    \A i \in 1..Len(readTable(csv.file)) :
        LET s == readTable(csv.file)[i]["salary"].v IN Len(s) > 0 /\ AllIn(s, 1, Digit)

\* C18: on the file backend orderBy("salary").desc().last() resolves with a row of the
\* lowest salary, and so does orderBy("salary").first(), the salaries compared as numbers
\* whatever their numbers of digits.
C18_LowestSalary ==
    /\ csv.out.name \in {"first", "last"}
    /\ csv.q = [NewBuilder EXCEPT !._order = <<"salary">>, !._desc = (csv.out.name = "last")]
    /\ Len(csv.file) > 1
    /\ SalariesAreNumbers
    => /\ Len(csv.out.rows) = 1
       /\ \A i \in 1..Len(readTable(csv.file)) :
             ~NumLess(readTable(csv.file)[i]["salary"].v, csv.out.rows[1]["salary"].v)

CsvTerminalCalls ==
    {"get", "insert", "update", "delete", "count", "first", "last", "addColumns",
     "removeColumns"}

\* C29: a terminal call of the file backend leaves the builder's select list, predicates,
\* order, descending flag, returning list and alter targets as they were, so predicates
\* of where() accumulate over terminal calls and desc() stays in force.
C29_TerminalKeepsBuilder ==
    [][(\E name \in CsvTerminalCalls : CsvStep(name)) => csv'.q = csv.q]_vars

\* a terminal call has been awaited on a builder that carries a predicate and the
\* descending flag, and carries them still
C29_Witness ==
    /\ csv.out.name \in CsvTerminalCalls
    /\ Len(csv.q._where) > 0
    /\ csv.q._desc

\* C21: on the file backend addColumns rejects when a target column is already in the
\* header and removeColumns rejects when a target column is not in it, the file staying
\* as it was; when they resolve, every row that was in the table is still a row, with its
\* values for the columns that remain, and the columns added are empty in every row.
C21_ColumnsAddedAndRemoved ==
    [][LET columns == getColumns(csv.file)
           targets == csv.q._alter
           before == readTable(csv.file)
           after == readTable(csv'.file)
           kept == IF csv'.out.name = "addColumns" THEN columns
                   ELSE Without(columns, Range(targets))
           added == IF csv'.out.name = "addColumns" THEN targets ELSE <<>>
       IN /\ CsvStep("addColumns") /\ Range(targets) \cap Range(columns) # {} =>
                csv'.out.err # ""
          /\ CsvStep("removeColumns") /\ ~(Range(targets) \subseteq Range(columns)) =>
                csv'.out.err # ""
          /\ (CsvStep("addColumns") \/ CsvStep("removeColumns")) =>
                IF csv'.out.err # "" THEN csv'.file = csv.file
                ELSE /\ getColumns(csv'.file) = kept \o added
                     /\ Len(after) = Len(before)
                     /\ \A i \in 1..Len(before) :
                           /\ \A c \in Range(kept) : after[i][c] = before[i][c]
                           /\ \A c \in Range(added) : after[i][c] = JStr("")]_vars

\* the four shapes of arguments of where / and / or: (column, value) with a string or a
\* number for value, (column, operator, value), (column, array), (column, null)
FourShapes(args) ==
    LET a0 == Arg(args, 0)
        a1 == Arg(args, 1)
    IN /\ a0.t = "string"
       /\ \/ Len(args) = 2 /\ a1.t \in {"string", "number", "array", "null"}
          \/ Len(args) = 3 /\ a1.t = "string" /\ a1.v \in operators

\* where, and or or is being called in this step
PredicateStep == Idle /\ nChain' = nChain + 1 /\ preds'.last.name # ""

predicateText(p) == Slice(where(NewHandle, p.args).b.sql.where, 6)

\* the predicates in the order of ps, each after the first behind its call's connector
RECURSIVE listed(_)
listed(ps) ==
    IF Len(ps) = 0 THEN ""
    ELSE IF Len(ps) = 1 THEN "WHERE " \o predicateText(ps[1])
    ELSE listed(SubSeq(ps, 1, Len(ps) - 1))
             \o (IF ps[Len(ps)].name = "or" THEN " OR " ELSE " AND ")
             \o predicateText(ps[Len(ps)])

\* C25: the WHERE clause of the handle lists the predicates of where() and of the and() /
\* or() calls that followed it, in the order called, each behind the connector of its
\* call, none dropped, doubled or moved.
C25_PredicatesInCallOrder == handle.sql.where = listed(preds.made)

\* three predicates have been composed, with both connectors
C25_Witness ==
    /\ Len(preds.made) = 3
    /\ {preds.made[i].name : i \in 1..3} = {"where", "and", "or"}
    /\ handle.sql.where = "WHERE job = 'rat' OR age > '30' AND job IS NULL"

\* the SELECT clause select() writes when called with no argument
selectAll == "SELECT * FROM " \o Ident(TableName)

\* get() is being called in this step
GetStep == Idle /\ outcome'.name = "get" /\ outcome' # outcome

\* C27, as stated: get() on a handle where select() was never called resolves with the
\* rows select() with no argument followed by get() resolves with, so it goes on to
\* fetch them as that call does.
C27_GetAloneAsSelectAll ==
    [][GetStep /\ handle.sql.select = "" =>
          /\ outcome'.err # "ColumnsNotSelected"
          /\ frames' = <<[phase |-> "schema", client |-> 0]>>]_vars

\* C27, amended: select() with no argument followed by get() sends SELECT * on the table,
\* whatever the columns of the table are; get() on a handle where select() was never
\* called rejects with the columns-not-selected error and sends nothing.
C27_SelectAllThenGet ==
    [][/\ ResolveStep({"get"}, "schema") /\ handle.sql.select = selectAll =>
             /\ frames' # <<>>
             /\ frames'[1].phase = "exec"
             /\ SubSeq(call'.stmt, 1, Len(selectAll)) = selectAll
       /\ GetStep /\ handle.sql.select = "" /\ handle.selectCols = <<>> =>
             /\ frames' = <<>>
             /\ outcome'.err = "ColumnsNotSelected"
             /\ outcome'.stmt = ""]_vars

\* select().get() has resolved with the rows of SELECT * on the table
C27_Witness ==
    /\ Idle
    /\ outcome.name = "get"
    /\ outcome.err = ""
    /\ outcome.stmt = selectAll \o ";"

\* a call on the Model is settling in this step: table() returns or throws, createTable /
\* deleteTable resolves or rejects
ModelSettles(names) ==
    /\ frames' = <<>>
    /\ outcome' # outcome
    /\ outcome'.name \in names

\* C23: table, createTable and deleteTable reject a table name that is no SQL identifier
\* with the invalid-identifier error, before a connection is obtained and before any
\* query, the existence query included, is sent.
C23_InvalidNameRejectedFirst ==
    [][/\ ModelSettles({"table", "createTable", "deleteTable"}) /\ ~ValidSQLName(call'.table) =>
             /\ outcome'.err = "InvalidIdentifier"
             /\ outcome'.acq = 0
             /\ outcome'.stmt = ""
       /\ ~Idle' /\ ~ValidSQLName(call'.table) => \A i \in DOMAIN frames' : frames'[i].client = 0]_vars

\* the existence query of the call in flight resolves in this step
ExistsStep(name) ==
    /\ ~Idle
    /\ call.name = name
    /\ Top.phase = "exists"
    /\ Top.client # 0
    /\ outcome'.err # "QueryError"

\* C26: createTable rejects when exists() answers that the server has the table, and
\* deleteTable when it answers that the server has not; the call then sends no CREATE
\* TABLE / DROP TABLE, the server's tables stay as they were, and the clients obtained
\* for the call and for exists() have been released.
C26_ExistencePreconditions ==
    [][/\ ExistsStep("createTable") /\ call.table \in tables =>
             /\ Idle'
             /\ outcome'.err = "TableAlreadyExists"
             /\ outcome'.stmt = ""
             /\ tables' = tables
             /\ held' = {}
             /\ outcome'.acq = 2 /\ outcome'.rel = 2
       /\ ExistsStep("deleteTable") /\ call.table \notin tables =>
             /\ Idle'
             /\ outcome'.err = "TableNotFound"
             /\ outcome'.stmt = ""
             /\ tables' = tables
             /\ held' = {}
             /\ outcome'.acq = 2 /\ outcome'.rel = 2
       /\ ~Idle' /\ Top'.phase = "ddl" =>
             (call'.table \in tables <=> call'.name = "deleteTable")]_vars

\* createTable has rejected for a table the server has, both clients released
C26_Witness ==
    /\ Idle
    /\ outcome.name = "createTable"
    /\ outcome.err = "TableAlreadyExists"
    /\ call.table \in tables
    /\ outcome.acq = 2 /\ outcome.rel = 2
    /\ held = {}

\* a file outside the database folder: its path steps up from the folder
outsideFolder(path) == includes(path, "..")

\* C22: table, createTable and deleteTable of the CSVDatabase reject a table name that
\* contains "..", so that no file outside the database folder is created or removed.
C22_NoFileOutsideFolder ==
    [][/\ csv' # csv /\ csv'.out.name \in {"table", "createTable", "deleteTable"}
             /\ includes(csv'.tableName, "..") =>
                csv'.out.err = "InvalidTableName"
       /\ {p \in csv'.paths : outsideFolder(p)} = {p \in csv.paths : outsideFolder(p)}]_vars

alone(c, content) ==
    IF c.name = "insert" THEN writeToTable(content, c.values)
    ELSE IF c.name = "delete" THEN deleteRows(content, c.conditions)
    ELSE updateTable(content, c.conditions, c.values.rows[1]).content

\* the file after the calls cs, each awaited before the next is made
RECURSIVE serial(_, _)
serial(cs, content) ==
    IF Len(cs) = 0 THEN content ELSE serial(Tail(cs), alone(cs[1], content))

\* two calls have resolved and the file is what one of them alone leaves, though the
\* other, made before or after it, would have left its mark
LostUpdate ==
    /\ csv.ops = <<>>
    /\ Len(csv.done) = 2
    /\ LET a == csv.done[1]
           b == csv.done[2]
       IN /\ csv.file \in {alone(a, csv.base), alone(b, csv.base)}
          /\ csv.file \notin {serial(<<a, b>>, csv.base), serial(<<b, a>>, csv.base)}

C37_ProjectionKeepsOrder ==
    [][CsvStep("get") /\ Len(csv.q._order) > 0 =>
          LET S == csv.q._select
              whole == csvGet(csvSelect(csv.q, <<>>), csv.file)
          IN csv'.out.rows = IF Len(S) > 0 /\ S[1] # "*" THEN pick(whole, S) ELSE whole]_vars

\* C39: on the file backend update(values) resolves, when returning was requested, with
\* the rows that met the predicates, holding the values they had before the update and
\* only the returning columns (every column when none was named), and with no row when
\* returning was not requested.
C39_UpdateReturnsOldRows ==
    [][CsvStep("update") /\ csv'.out.err = "" =>
          LET read == readTable(csv.file)
              matched == IF Len(csv.q._where) > 0 THEN filter(read, csv.q._where, TRUE)
                         ELSE read
              named == Without(csv.asked.columns, {"*"})
          IN csv'.out.rows = IF ~csv.asked.called THEN <<>>
                             ELSE IF Len(named) > 0 THEN pick(matched, named)
                             ELSE matched]_vars

\* C38: on the file backend the header of the table, whose names are distinct to begin
\* with, holds no name twice after any addColumns and removeColumns calls that resolved.
C38_HeaderNamesDistinct ==
    LET header == getColumns(csv.file) IN Cardinality(Range(header)) = Len(header)

\* the statements count / sum / avg / min / max / first compile on a handle with no clause
aggregateStatements(name) ==
    CASE name = "count" -> {count(NewHandle, c).stmt : c \in CountArgs}
      [] name = "sum" -> {sum(NewHandle, c).stmt : c \in SumArgs}
      [] name = "avg" -> {avg(NewHandle, a[1], a[2]).stmt : a \in AvgArgs}
      [] name = "min" -> {min(NewHandle, c).stmt : c \in MinArgs}
      [] name = "max" -> {max(NewHandle, c).stmt : c \in MaxArgs}
      [] OTHER -> {first(NewHandle).stmt}

setOwnOrDefault(rows, columnsToUpdate) ==
    JoinStr([i \in 1..Len(columnsToUpdate) |->
                IF \E r \in 1..Len(rows) : columnsToUpdate[i].column_name \in DOMAIN rows[r]
                THEN Ident(columnsToUpdate[i].column_name) \o " = EXCLUDED."
                         \o Ident(columnsToUpdate[i].column_name)
                ELSE Ident(columnsToUpdate[i].column_name) \o " = "
                         \o Literal(columnsToUpdate[i].column_default)],
            ", ")

\* C32: on a table with a primary key the statement upsert sends, for a row object and for
\* an array of rows alike, is the INSERT followed by ON CONFLICT on the first primary-key
\* column, whose action assigns each column outside the key the incoming row's value
\* (EXCLUDED) when the row supplies the column and the schema default only when the row
\* omits it, followed by the RETURNING clause.
C32_UpsertAssignsIncomingValues ==
    (~Idle /\ call.name = "upsert" /\ Top.phase = "exec" /\ Len(call.pks) > 0)
    => LET r == insertSql(call.values, call.pks, db.schema)
           columnsToUpdate == withoutColumns(r.schemaData, Range(columnNames(call.pks)))
       IN call.stmt = r.sql \o " ON CONFLICT (" \o Ident(call.pks[1].column_name)
                          \o ") DO UPDATE SET "
                          \o setOwnOrDefault(call.values.rows, columnsToUpdate)
                          \o " " \o call.sql.returning

\* C35: a column name the caller gave to orderBy stands in an executed statement only if
\* it passed the identifier rule or was written as a quoted identifier: the ORDER BY
\* clause of the SELECT sent holds no name copied as given.
C35_OrderNamesCheckedOrQuoted ==
    (~Idle /\ call.name = "get" /\ Top.phase = "exec" /\ call.sql.order # "")
    => \/ \A i \in 1..Len(handle.orderCols) : ValidSQLName(handle.orderCols[i])
       \/ call.sql.order = "ORDER BY " \o IdentList(handle.orderCols)

\* the slots a chained call writes
owned(name) ==
    CASE name = "select" -> {"select"}
      [] name \in {"innerJoin", "leftJoin", "rightJoin"} -> {"join", "on"}
      [] name \in {"on", "onOr", "onAnd"} -> {"on"}
      [] name \in {"where", "or", "and"} -> {"where"}
      [] name = "orderBy" -> {"order"}
      [] OTHER -> {name}

\* a clause after another: a space and the clause, nothing when it is empty
spaced(clause) == IF clause = "" THEN "" ELSE " " \o clause

\* C31: the SELECT statement get() sends holds the handle's non-empty clauses in the order
\* select, join, on, where, order, desc, limit, returning, one space between two clauses
\* and ';' at the end; and each chained call writes only the clauses of its own kind
\* (a join its join and on clauses), so the statement is the same in whatever order the
\* clauses of different kinds were chained.
C31_ClausesInFixedOrder ==
    [][/\ ResolveStep({"get"}, "schema") /\ ~Idle' =>
             call'.stmt = handle.sql.select \o spaced(handle.sql.join) \o spaced(handle.sql.on)
                              \o spaced(handle.sql.where) \o spaced(handle.sql.order)
                              \o spaced(handle.sql.desc) \o spaced(handle.sql.limit)
                              \o spaced(handle.sql.returning) \o ";"
       /\ ChainedStep({"select", "innerJoin", "leftJoin", "rightJoin", "on", "onOr", "onAnd",
                       "where", "or", "and", "orderBy", "desc", "limit", "returning"}) =>
             \A k \in Range(SlotNames) \ owned(outcome'.name) : handle'.sql[k] = handle.sql[k]]_vars

\* get() sends a SELECT whose returning, limit and where clauses were chained on the handle
C31_SelectWithThreeClauses ==
    /\ ~Idle /\ call.name = "get" /\ Top.phase = "exec"
    /\ call.sql.where # "" /\ call.sql.returning # ""
    /\ call.stmt = call.sql.select \o " " \o call.sql.where \o " " \o call.sql.returning \o ";"

\* C34: with a pool of one client and a server that answers every query, every call on
\* the Model that is in flight (createTable and deleteTable in particular) eventually
\* resolves or rejects, its clients back in the pool.
C34_CallsSettleWithOneClient ==
    (Cardinality(pool) = 1 /\ ~Idle) ~> (Idle /\ held = {})

\* C33: the SELECT statement get() sends is compiled from the clauses the handle held when
\* get() was called, whatever was chained on the handle while get() awaited the schema.
C33_StatementOfClausesAtCall ==
    (~Idle /\ call.name = "get" /\ Top.phase = "exec")
    => call.stmt = Trim(JoinStr(nonEmptySlots(call.sql, SlotNames), " ")) \o ";"
=============================================================================
